---------------------------- MODULE Spec2Model ----------------------------
(***************************************************************************)
(* Air Hockey: the peer session (js/network.js), the match orchestration   *)
(* (js/game.js) and the screens that drive them (js/ui.js), as a state     *)
(* machine over two browsers joined by the PeerJS transport.               *)
(*                                                                         *)
(* Each JavaScript function is an operator from a world record to a world  *)
(* record (the synchronous calls of a handler compose), and each event     *)
(* the browser can deliver (a click, a transport event, a timer, an        *)
(* animation frame) is one action applying the whole handler.              *)
(***************************************************************************)
EXTENDS Integers, Sequences, FiniteSets, TLC

Browsers == {"P1", "P2"}

\* In Spec the user of one browser creates rooms and the user of the other
\* joins them; in SpecRoles either user does both.
Creators == {"P1"}
Joiners == {"P2"}

\* Room codes Network.generateRoomCode can return and a user can type: a
\* small sample of the 4-digit range 1000..9999.
Codes == {1000}

MaxPeers == 3
MaxConns == 2
MaxQueue == 1
MaxRaf == 2
MaxTimers == 1

NoPeer == 0
NoCode == 0
NoConn == [k |-> 0, side |-> "-"]

Sides == {"g", "h"}
Other(sd) == IF sd = "g" THEN "h" ELSE "g"

VARIABLES
    net,      \* Network singleton of each browser
    game,     \* Game singleton of each browser
    ui,       \* visible screen and connection-lost overlay of each browser
    raf,      \* pending requestAnimationFrame callbacks of each browser, oldest first
    timers,   \* pending setTimeout callbacks of each browser
    peers,    \* the Peer objects constructed so far
    conns,    \* the DataConnections opened so far (both ends)
    did,      \* what the last step executed (observations for the properties)
    thr,      \* the clock and the gameState throttle of one host (SpecThrottle)
    mir,      \* one guest Game object and the state message it is given (SpecMirror)
    mat,      \* one host Game object with its numbers, its timers and what it
              \* hands to Network.sendGameState (SpecMatch)
    syn       \* the Game objects of a host and its guest with the channel from
              \* the host to the guest between them (SpecSync)

vars == <<net, game, ui, raf, timers, peers, conns, did, thr, mir, mat, syn>>

\* The world as one record, so that nested synchronous calls compose.
S == [net |-> net, game |-> game, ui |-> ui, raf |-> raf, timers |-> timers,
      peers |-> peers, conns |-> conns, did |-> {}]

Emit(s, e, b) == [s EXCEPT !.did = @ \cup {[ev |-> e, b |-> b]}]

Did(e, b) == [ev |-> e, b |-> b] \in did

-----------------------------------------------------------------------------
(* Initial values of the singletons (the object literals).                 *)

NetworkInit == [peer |-> NoPeer, connection |-> NoConn, isConnected |-> FALSE,
                isHost |-> FALSE, roomCode |-> NoCode]

\* score is kept here as `won`: which component has reached winningScore.
GameInit == [isRunning |-> FALSE, isHost |-> FALSE, puck |-> FALSE, won |-> "none"]

UIInit == [screen |-> "menu", connectionLost |-> FALSE]

TimersInit == [ready |-> 0, reset |-> 0, show |-> 0]


-----------------------------------------------------------------------------
(* requestAnimationFrame queue.  An entry is a deferred match start        *)
(* (UI.startGame) or the next turn of a simulation loop (Game.gameLoop);   *)
(* `cur` marks the entry whose id Game.animationId holds.                  *)

StartCb(isHost) == [kind |-> "start", isHost |-> isHost, cur |-> FALSE]
LoopCb == [kind |-> "loop", isHost |-> FALSE, cur |-> TRUE]

\* cancelAnimationFrame(this.animationId)
cancelAnimationFrame(q) == SelectSeq(q, LAMBDA e : ~e.cur)

\* this.animationId = requestAnimationFrame(gameLoop)
requestLoopFrame(q) ==
    Append([i \in 1..Len(q) |-> [q[i] EXCEPT !.cur = FALSE]], LoopCb)

-----------------------------------------------------------------------------
(* The transport (PeerJS), as the repository uses it.                      *)

EndInit == [open |-> FALSE, closed |-> FALSE, handlers |-> 0, q |-> <<>>]

\* The browser on whose Network singleton the handlers of an end run.
EndOwner(s, k, sd) ==
    IF sd = "g" THEN s.peers[s.conns[k].via].owner
    ELSE s.peers[s.conns[k].hpeer].owner

EndLive(e) == e.open /\ ~e.closed

\* A closed end: not open any more, nothing in flight, no listener runs again
EndClosed == [open |-> FALSE, closed |-> TRUE, handlers |-> 0, q |-> <<>>]

\* DataConnection.send: an end that is not open refuses the message; what is
\* sent to an end that has already closed is lost.  `readys` counts the
\* 'ready' messages the connection has been given to carry.
connSend(s, ref, msg, b) ==
    LET c == s.conns[ref.k]
        o == Other(ref.side)
    IN  IF EndLive(c.end[ref.side])
        THEN [s EXCEPT !.conns[ref.k].end[o].q =
                            IF c.end[o].closed THEN @ ELSE Append(@, msg),
                       !.conns[ref.k].readys =
                            IF msg.type = "ready" THEN @ + 1 ELSE @]
        ELSE s

-----------------------------------------------------------------------------
(* js/game.js and js/ui.js: match orchestration.                           *)

\* Game.stop
stop(s, b) ==
    [s EXCEPT !.game[b].isRunning = FALSE,
              !.raf[b] = cancelAnimationFrame(@)]

\* UI.showConnectionLost
showConnectionLost(s, b) ==
    stop([s EXCEPT !.ui[b].connectionLost = TRUE], b)

\* Network.onDisconnected, as UI.setupNetworkCallbacks sets it
onDisconnected(s, b) ==
    IF s.game[b].isRunning THEN showConnectionLost(s, b) ELSE s

\* UI.showGameOver: the game-over screen is shown 1000 ms later
showGameOver(s, b) ==
    [s EXCEPT !.timers[b].show = @ + 1]

\* Game.gameOver
gameOver(s, b, playerWon) ==
    LET s1 == [s EXCEPT !.game[b].isRunning = FALSE,
                        !.raf[b] = cancelAnimationFrame(@)]
    IN  showGameOver(s1, b)

\* UI.startGame: show the game screen, start the match on the next frame
startGame(s, b, isHost) ==
    [s EXCEPT !.ui[b].screen = "game",
              !.raf[b] = Append(@, StartCb(isHost))]

-----------------------------------------------------------------------------
(* js/network.js: sending.                                                 *)

\* Network.send with neither its guard nor its try
send_Unguarded(s, b, msg) ==
    IF s.net[b].connection = NoConn THEN Emit(s, "TypeError:send", b)
    ELSE connSend(s, s.net[b].connection, msg, b)

\* Network.send
send(s, b, msg) ==
    IF s.net[b].connection # NoConn /\ s.net[b].isConnected
    THEN connSend(s, s.net[b].connection, msg, b)
    ELSE s

\* The channel of browser b as the transport sees it.
ChannelOpen(s, b) ==
    /\ s.net[b].connection # NoConn
    /\ EndLive(s.conns[s.net[b].connection.k].end[s.net[b].connection.side])

\* A call of Network.send, observed when the channel was not open and
\* connected: whether the call changed anything.
Send(s, b, msg) ==
    LET r == send(s, b, msg)
    IN  IF ChannelOpen(s, b) /\ s.net[b].isConnected THEN r
        ELSE Emit(r, IF r = s THEN "sendNoop" ELSE "sendChanged", b)

\* Network.sendGameState: `due` is now - lastStateSend >= stateSendInterval;
\* the clock itself is kept in the throttle specification
sendGameState(s, b, state, due) ==
    IF due
    THEN Send(s, b, [type |-> "gameState", won |-> state.won])
    ELSE s

\* Network.sendPlayAgain
sendPlayAgain(s, b) == Send(s, b, [type |-> "playAgain", won |-> "none"])

Msg(t) == [type |-> t, won |-> "none"]


-----------------------------------------------------------------------------
(* js/game.js: the match.  The physics of a tick is summarised here by its *)
(* outcome: the puck moved, or it entered a goal mouth; `reaches` says     *)
(* whether that goal takes score[scorer] to winningScore.                  *)

Outcomes == {[goal |-> FALSE, scorer |-> "none", reaches |-> FALSE]} \cup
            [goal : {TRUE}, scorer : {"player", "opponent"}, reaches : BOOLEAN]

Moved == [goal |-> FALSE, scorer |-> "none", reaches |-> FALSE]

\* Game.resetPuck
resetPuck(s, b, due) ==
    IF s.net[b].isConnected
    THEN sendGameState(s, b, [won |-> s.game[b].won], due)
    ELSE s

\* Game.goalScored
goalScored(s, b, scorer, reaches) ==
    IF reaches
    THEN gameOver([s EXCEPT !.game[b].won = scorer], b, scorer = "player")
    ELSE [s EXCEPT !.timers[b].reset = @ + 1]

\* Game.updatePhysics
updatePhysics(s, b, o, due) ==
    LET s1 == IF s.net[b].isHost THEN s ELSE Emit(s, "guestPhysics", b)
    IN  IF o.goal
        THEN goalScored(s1, b, o.scorer, o.reaches)
        ELSE IF s1.net[b].isConnected
             THEN sendGameState(s1, b, [won |-> s1.game[b].won], due)
             ELSE s1

\* Game.gameLoop
gameLoop(s, b, o, due) ==
    IF ~s.game[b].isRunning THEN s
    ELSE LET s1 == IF s.game[b].isHost THEN updatePhysics(s, b, o, due) ELSE s
         IN  [s1 EXCEPT !.raf[b] = requestLoopFrame(@)]

\* Game.start: the first turn of the loop runs at once, with the puck at
\* the centre of the arena
start(s, b, isHost, due) ==
    LET s1 == [s EXCEPT !.game[b] = [isRunning |-> TRUE, isHost |-> isHost,
                                     puck |-> TRUE, won |-> "none"]]
    IN  gameLoop(s1, b, Moved, due)

\* The score swap of Game.updateFromHost, on `won`
MirrorWon(w) ==
    CASE w = "player" -> "opponent"
      [] w = "opponent" -> "player"
      [] OTHER -> "none"

\* Game.updateFromHost: this.puck.x is read first, so a puck that is still
\* null ends the handler with a TypeError
updateFromHost(s, b, state) ==
    IF s.game[b].isHost THEN s
    ELSE IF ~s.game[b].puck THEN Emit(s, "TypeError:updateFromHost", b)
    ELSE LET s0 == IF s.net[b].isHost THEN Emit(s, "hostApplied", b) ELSE s
             s1 == [s0 EXCEPT !.game[b].won = MirrorWon(state.won)]
         IN  CASE s1.game[b].won = "player" -> gameOver(s1, b, TRUE)
               [] s1.game[b].won = "opponent" -> gameOver(s1, b, FALSE)
               [] OTHER -> s1

\* Game.updateOpponentPaddle: the paddle bodies are not part of this record
updateOpponentPaddle(s, b) == s

-----------------------------------------------------------------------------
(* js/network.js: the session.                                             *)

\* Network.handleMessage
handleMessage(s, b, data) ==
    LET s0 == s
    IN  CASE data.type = "ready" ->
                IF s0.net[b].isHost
                THEN startGame(Send(s0, b, Msg("start")), b, TRUE)
                ELSE s0
          [] data.type = "start" -> startGame(s0, b, s0.net[b].isHost)
          [] data.type = "paddle" -> updateOpponentPaddle(s0, b)
          [] data.type = "gameState" ->
                IF ~s0.net[b].isHost THEN updateFromHost(s0, b, data) ELSE s0
          [] data.type = "playAgain" ->
                IF s0.net[b].isHost
                THEN startGame(Send(s0, b, Msg("start")), b, TRUE)
                ELSE startGame(s0, b, s0.net[b].isHost)
          [] OTHER -> s0

\* The listeners of one end get the event once per registration.
RECURSIVE dispatch(_, _, _, _)
dispatch(s, b, data, n) ==
    IF n = 0 THEN s ELSE dispatch(handleMessage(s, b, data), b, data, n - 1)

\* The 'close' listener Network.setupConnection registers.  A second run of
\* it changes nothing more, so one run stands for every registration.
onClose(s, b) ==
    onDisconnected(Emit([s EXCEPT !.net[b].isConnected = FALSE],
                        "onDisconnected", b), b)

\* DataConnection.close on one end (also what the end does when the other
\* side has gone): 'close' is emitted only by an end that was open.
connClose(s, k, sd) ==
    LET e == s.conns[k].end[sd]
        s1 == [s EXCEPT !.conns[k].end[sd] = EndClosed]
    IN  IF e.closed THEN s
        ELSE IF e.open /\ e.handlers > 0 THEN onClose(s1, EndOwner(s, k, sd))
        ELSE s1

\* Peer.destroy: closes every connection of the peer
RECURSIVE closeAll(_, _, _)
closeAll(s, p, k) ==
    IF k = 0 THEN s
    ELSE LET c == s.conns[k]
             s1 == IF c.from = p THEN connClose(s, k, "g") ELSE s
             s2 == IF c.hpeer = p THEN connClose(s1, k, "h") ELSE s1
         IN  closeAll(s2, p, k - 1)

peerDestroy(s, p) ==
    closeAll([s EXCEPT !.peers[p].st = "destroyed"], p, Len(s.conns))

\* Network.disconnect that destroys the peer but keeps the reference
disconnect_KeepsPeer(s, b) ==
    LET s1 == [s EXCEPT !.net[b].isConnected = FALSE]
        c == s1.net[b].connection
        s2 == IF c # NoConn
              THEN [connClose(s1, c.k, c.side) EXCEPT !.net[b].connection = NoConn]
              ELSE s1
        p == s2.net[b].peer
        s3 == IF p # NoPeer THEN peerDestroy(s2, p) ELSE s2
    IN  [s3 EXCEPT !.net[b].roomCode = NoCode]

\* Network.disconnect
disconnect(s, b) ==
    LET s1 == [s EXCEPT !.net[b].isConnected = FALSE]
        c == s1.net[b].connection
        s2 == IF c # NoConn
              THEN [connClose(s1, c.k, c.side) EXCEPT !.net[b].connection = NoConn]
              ELSE s1
        p == s2.net[b].peer
        s3 == IF p # NoPeer
              THEN [peerDestroy(s2, p) EXCEPT !.net[b].peer = NoPeer]
              ELSE s2
    IN  [s3 EXCEPT !.net[b].roomCode = NoCode]

\* Network.setupConnection
setupConnection(s, b) ==
    LET s1 == [s EXCEPT !.net[b].isConnected = TRUE]
        c == s1.net[b].connection
    IN  IF c = NoConn THEN Emit(s1, "TypeError:setupConnection", b)
        ELSE LET s2 == [s1 EXCEPT !.conns[c.k].end[c.side].handlers = @ + 1]
             IN  IF ~s2.net[b].isHost
                 THEN [s2 EXCEPT !.timers[b].ready = @ + 1]
                 ELSE s2

\* new Peer(...) inside `new Promise(...)`: the Peer, the promise of the call
\* that made it, and the call's one-shot timer (60 s to create, 10 s to join)
NewPeer(b, kind, code) ==
    [owner |-> b, kind |-> kind, code |-> code, st |-> "new",
     promise |-> "pending", timer |-> TRUE]

\* resolve(...) of the call that made peer p; the awaiting UI.createGame then
\* writes the code on the create screen, the awaiting UI.joinGame returns
resolve(s, p) ==
    IF s.peers[p].promise = "pending"
    THEN [s EXCEPT !.peers[p].promise = "resolved"]
    ELSE s

\* reject(...) of the call that made peer p, and the catch of the awaiting
\* caller: UI.createGame alerts and shows the menu, UI.joinGame shows the
\* join error and enables the connect button again
reject(s, p) ==
    IF s.peers[p].promise = "pending"
    THEN LET s1 == [s EXCEPT !.peers[p].promise = "rejected"]
         IN  IF s.peers[p].kind = "host"
             THEN [s1 EXCEPT !.ui[s.peers[p].owner].screen = "menu"]
             ELSE s1
    ELSE s

\* The timer of Network.createGame (60000 ms) or Network.joinGame (10000 ms)
\* that also gives the session up
establishmentTimeout_Disconnects(s, p) ==
    LET b == s.peers[p].owner
        s1 == Emit([s EXCEPT !.peers[p].timer = FALSE], "timeout", b)
    IN  IF ~s1.net[b].isConnected THEN disconnect(reject(s1, p), b) ELSE s1

\* The timer of Network.createGame (60000 ms) or Network.joinGame (10000 ms)
establishmentTimeout(s, p) ==
    LET b == s.peers[p].owner
        s1 == Emit([s EXCEPT !.peers[p].timer = FALSE], "timeout", b)
    IN  IF ~s1.net[b].isConnected THEN reject(s1, p) ELSE s1

\* Network.createGame: the body of the promise
createGame(s, b, code) ==
    [s EXCEPT !.net[b].roomCode = code,
              !.net[b].isHost = TRUE,
              !.net[b].peer = Len(s.peers) + 1,
              !.peers = Append(@, NewPeer(b, "host", code))]

\* Network.joinGame: the body of the promise
joinGame(s, b, roomCode) ==
    [s EXCEPT !.net[b].roomCode = roomCode,
              !.net[b].isHost = FALSE,
              !.net[b].peer = Len(s.peers) + 1,
              !.peers = Append(@, NewPeer(b, "guest", roomCode))]


-----------------------------------------------------------------------------
(* js/network.js: the gameState throttle, with its clock.  Times are in    *)
(* milliseconds, as Date.now() gives them.                                *)

stateSendInterval == 33

\* Date.now() when the page is loaded, and the span of time observed.
PageLoad == 100
Window == 200

\* By how much the clock moves between two events.
Delays == {1, 5, 16}

\* lastStateSend as the object literal has it; `sent`, `lastSent` and `wire`
\* record what the channel was given: how many messages, when the latest
\* one, and of which instant the state it carries is.  `every5` is the time
\* of the latest attempt while attempts have been made at PageLoad and every
\* 5 ms since, and -1 once they have not.
ThrottleInit == [now |-> PageLoad, lastStateSend |-> 0, sent |-> 0,
                 lastSent |-> 0, wire |-> 0, every5 |-> PageLoad - 5]

\* Network.sendGameState that does not record when it sent
Network_sendGameState_NoStamp(n, state) ==
    IF n.now - n.lastStateSend >= stateSendInterval
    THEN [n EXCEPT !.sent = @ + 1, !.lastSent = n.now, !.wire = state]
    ELSE n

\* Network.sendGameState on an open channel, at time n.now, of the state
\* captured at time `state`
Network_sendGameState(n, state) ==
    IF n.now - n.lastStateSend >= stateSendInterval
    THEN [n EXCEPT !.sent = @ + 1, !.lastSent = n.now, !.wire = state,
                   !.lastStateSend = n.now]
    ELSE n

-----------------------------------------------------------------------------
(* js/game.js: the guest's side of a state message, on the Game object     *)
(* with its numbers.  Coordinates are whole pixels; the velocity of a      *)
(* paddle is in tenths of a pixel per frame.                               *)

winningScore == 11
maxTrailLength == 15

\* Arenas Game.resize can measure: sizes whose minDim * 0.02 and
\* minDim * 0.08 are whole numbers.
Arenas == [width : {100, 150}, height : {150, 200}]
Coords == {0, 1, 75, 150}
Speeds == {-2, 0, 3}
Scores == {0, 1, 10, 11}

\* What Game.updatePhysics and Game.resetPuck pass to Network.sendGameState
States == [puck : [x : Coords, y : Coords, vx : Speeds, vy : Speeds],
           score : [player : Scores, opponent : Scores]]

NoState == [puck |-> [x |-> 0, y |-> 0, vx |-> 0, vy |-> 0],
            score |-> [player |-> 0, opponent |-> 0]]

StateOf(g) == [puck |-> g.puck, score |-> g.score]

MinDim(a) == IF a.width < a.height THEN a.width ELSE a.height

\* The Game object after Game.resize and Game.start(false) in an arena:
\* paddleRadius + wallThickness is minDim / 10; lastX and lastY are not set
\* yet, which `lastX || x` treats as it treats 0
GuestGame(a) ==
    [isHost |-> FALSE, isRunning |-> TRUE, width |-> a.width, height |-> a.height,
     puck |-> [x |-> a.width \div 2, y |-> a.height \div 2, vx |-> 0, vy |-> 0],
     opponentPaddle |-> [x |-> a.width \div 2, y |-> MinDim(a) \div 10 + 20,
                         vx |-> 0, vy |-> 0, lastX |-> 0, lastY |-> 0],
     puckTrail |-> <<>>, score |-> [player |-> 0, opponent |-> 0]]

\* Game.gameOver, on the Game object
Game_gameOver(g, playerWon) == [g EXCEPT !.isRunning = FALSE]

\* puckTrail.unshift(p); if (length > maxTrailLength) pop()
Unshift(trail, p) ==
    LET l == <<p>> \o trail
    IN  IF Len(l) > maxTrailLength THEN SubSeq(l, 1, Len(l) - 1) ELSE l

\* Game.updateFromHost that leaves vy as the host has it
Game_updateFromHost_KeepsVy(g, state) ==
    IF g.isHost THEN g
    ELSE LET pk == [x |-> g.width - state.puck.x, y |-> g.height - state.puck.y,
                    vx |-> -state.puck.vx, vy |-> state.puck.vy]
             g1 == [g EXCEPT !.puck = pk,
                             !.puckTrail = Unshift(@, [x |-> pk.x, y |-> pk.y]),
                             !.score = [player |-> state.score.opponent,
                                        opponent |-> state.score.player]]
         IN  IF g1.score.player >= winningScore THEN Game_gameOver(g1, TRUE)
             ELSE IF g1.score.opponent >= winningScore THEN Game_gameOver(g1, FALSE)
             ELSE g1

\* Game.updateFromHost that reads the host's y for x and its x for y
Game_updateFromHost_SwapsAxes(g, state) ==
    IF g.isHost THEN g
    ELSE LET pk == [x |-> g.width - state.puck.y, y |-> g.height - state.puck.x,
                    vx |-> -state.puck.vx, vy |-> -state.puck.vy]
             g1 == [g EXCEPT !.puck = pk,
                             !.puckTrail = Unshift(@, [x |-> pk.x, y |-> pk.y]),
                             !.score = [player |-> state.score.opponent,
                                        opponent |-> state.score.player]]
         IN  IF g1.score.player >= winningScore THEN Game_gameOver(g1, TRUE)
             ELSE IF g1.score.opponent >= winningScore THEN Game_gameOver(g1, FALSE)
             ELSE g1

\* Game.updateFromHost, on the Game object
Game_updateFromHost(g, state) ==
    IF g.isHost THEN g
    ELSE LET pk == [x |-> g.width - state.puck.x, y |-> g.height - state.puck.y,
                    vx |-> -state.puck.vx, vy |-> -state.puck.vy]
             g1 == [g EXCEPT !.puck = pk,
                             !.puckTrail = Unshift(@, [x |-> pk.x, y |-> pk.y]),
                             !.score = [player |-> state.score.opponent,
                                        opponent |-> state.score.player]]
         IN  IF g1.score.player >= winningScore THEN Game_gameOver(g1, TRUE)
             ELSE IF g1.score.opponent >= winningScore THEN Game_gameOver(g1, FALSE)
             ELSE g1

\* Game.updateOpponentPaddle, on the Game object
Game_updateOpponentPaddle(g, x, y) ==
    LET px == g.width - x
        py == g.height - y
        op == g.opponentPaddle
    IN  [g EXCEPT !.opponentPaddle =
            [x |-> px, y |-> py,
             vx |-> 3 * (px - (IF op.lastX = 0 THEN px ELSE op.lastX)),
             vy |-> 3 * (py - (IF op.lastY = 0 THEN py ELSE op.lastY)),
             lastX |-> px, lastY |-> py]]

MirrorIdle == [g |-> GuestGame([width |-> 100, height |-> 150]), kind |-> "none",
               given |-> NoState, n |-> 0]

-----------------------------------------------------------------------------
(* js/game.js: the host's side of a match, on the Game object with its     *)
(* numbers.  Lengths are in thousandths of a pixel and speeds in           *)
(* thousandths of a pixel per frame; a product with a fraction is rounded  *)
(* toward zero to the thousandth.                                          *)

Px == 1000

friction == 995
maxPuckSpeed == 25 * Px

\* The canvas Game.resize measures
TableWidth == 100 * Px
TableHeight == 150 * Px

Abs(x) == IF x < 0 THEN -x ELSE x

\* x * n / d
Scale(x, n, d) == IF x >= 0 THEN (x * n) \div d ELSE -(((-x) * n) \div d)

RECURSIVE SqrtIn(_, _, _)
SqrtIn(n, lo, hi) ==
    IF lo = hi THEN lo
    ELSE LET mid == (lo + hi + 1) \div 2
         IN  IF mid * mid <= n THEN SqrtIn(n, mid, hi) ELSE SqrtIn(n, lo, mid - 1)

\* Math.sqrt(a * a + b * b)
RECURSIVE Hypot(_, _)
Hypot(a, b) ==
    IF Abs(a) <= 30 * Px /\ Abs(b) <= 30 * Px
    THEN SqrtIn(a * a + b * b, 0, 46340)
    ELSE 10 * Hypot(Scale(a, 1, 10), Scale(b, 1, 10))

\* v * Math.pow(this.friction, dt), for a whole dt
RECURSIVE Friction(_, _)
Friction(v, dt) ==
    IF dt = 0 THEN v ELSE Friction(Scale(v, friction, 1000), dt - 1)

\* Game.resetPositions
Game_resetPositions(g) ==
    IF ~g.hasPuck THEN g
    ELSE [g EXCEPT !.puck.x = g.width \div 2,
                   !.puck.y = g.height \div 2,
                   !.playerPaddle.x = g.width \div 2,
                   !.playerPaddle.y = g.height - g.paddleRadius - g.wallThickness - 20 * Px,
                   !.opponentPaddle.x = g.width \div 2,
                   !.opponentPaddle.y = g.paddleRadius + g.wallThickness + 20 * Px]

\* Game.resize, with the rectangle the canvas measures
Game_resize(g, rect) ==
    LET minDim == IF rect.width < rect.height THEN rect.width ELSE rect.height
    IN  Game_resetPositions(
            [g EXCEPT !.width = rect.width,
                      !.height = rect.height,
                      !.paddleRadius = Scale(minDim, 8, 100),
                      !.puckRadius = Scale(minDim, 5, 100),
                      !.goalWidth = Scale(rect.width, 4, 10),
                      !.wallThickness = Scale(minDim, 2, 100)])

\* The Game object as the object literal has it (puck: null, hasPuck FALSE),
\* with the canvas measured by Game.init (Game.resize)
GameLiteral ==
    Game_resize(
        [isRunning |-> FALSE, isHost |-> FALSE, width |-> 0, height |-> 0,
         paddleRadius |-> 0, puckRadius |-> 0, goalWidth |-> 0, wallThickness |-> 0,
         hasPuck |-> FALSE,
         puck |-> [x |-> 0, y |-> 0, vx |-> 0, vy |-> 0],
         playerPaddle |-> [x |-> 0, y |-> 0, vx |-> 0, vy |-> 0],
         opponentPaddle |-> [x |-> 0, y |-> 0, vx |-> 0, vy |-> 0,
                             lastX |-> 0, lastY |-> 0],
         puckTrail |-> <<>>, score |-> [player |-> 0, opponent |-> 0]],
        [width |-> TableWidth, height |-> TableHeight])

\* One browser during a match: its Game object, Network.isConnected, the
\* number of pending requestAnimationFrame callbacks of Game.gameLoop, the
\* pending 1500 ms timers of Game.goalScored (scorer, and the match that set
\* the timer), the calls of UI.showGameOver (playerWon, and the match), the
\* number of states handed to Network.sendGameState and the latest of them,
\* the latest position handed to Network.sendPaddlePosition,
\* the matches started, the frames run, the late ones among them, the timers
\* run and the pointer events handled; and
\* of the latest handler, its sounds, its goals and what it handed to
\* Network.sendGameState and to Network.sendPaddlePosition.
MatchIdle ==
    [g |-> GameLiteral, isConnected |-> TRUE, loops |-> 0, resets |-> <<>>,
     overs |-> <<>>, sent |-> 0, wire |-> NoState, paddleWire |-> [x |-> 0, y |-> 0],
     starts |-> 0, ticks |-> 0, slow |-> 0, fired |-> 0, moves |-> 0,
     sounds |-> <<>>, goals |-> <<>>, sentNow |-> 0, paddleSentNow |-> 0]

Handler(m) ==
    [m EXCEPT !.sounds = <<>>, !.goals = <<>>, !.sentNow = 0, !.paddleSentNow = 0]

Audio_play(m, sound) == [m EXCEPT !.sounds = Append(@, sound)]

\* Network.sendGameState as Game calls it when Network.isConnected
Game_send(m) ==
    IF m.isConnected
    THEN [m EXCEPT !.sent = @ + 1, !.sentNow = @ + 1, !.wire = StateOf(m.g)]
    ELSE m

wallLeft(g) == g.wallThickness + g.puckRadius
wallRight(g) == g.width - g.wallThickness - g.puckRadius
wallTop(g) == g.wallThickness + g.puckRadius
wallBottom(g) == g.height - g.wallThickness - g.puckRadius
goalLeft(g) == (g.width - g.goalWidth) \div 2
goalRight(g) == (g.width + g.goalWidth) \div 2

\* Game.gameOver; animationId is the frame requested last, which is
\* another pending one when more than one loop runs
Match_gameOver(m, playerWon) ==
    Audio_play([m EXCEPT !.g = Game_gameOver(m.g, playerWon),
                         !.loops = IF @ >= 2 THEN @ - 1 ELSE @,
                         !.overs = Append(@, [playerWon |-> playerWon,
                                              match |-> m.starts])],
               IF playerWon THEN "win" ELSE "lose")

\* Game.goalScored that never ends the match
Game_goalScored_NeverEnds(m, scorer) ==
    LET m1 == Audio_play([m EXCEPT !.g.score[scorer] = @ + 1,
                                   !.goals = Append(@, scorer)], "goal")
    IN  [m1 EXCEPT !.resets = Append(@, [scorer |-> scorer, match |-> m.starts])]

\* Game.goalScored
Game_goalScored(m, scorer) ==
    LET m1 == Audio_play([m EXCEPT !.g.score[scorer] = @ + 1,
                                   !.goals = Append(@, scorer)], "goal")
    IN  IF m1.g.score[scorer] >= winningScore
        THEN Match_gameOver(m1, scorer = "player")
        ELSE [m1 EXCEPT !.resets = Append(@, [scorer |-> scorer, match |-> m.starts])]

\* Game.updatePhysics up to the clamp of the speed: trail, position,
\* friction, clamp
Game_move(g, dt) ==
    LET pk == g.puck
        fx == Friction(pk.vx, dt)
        fy == Friction(pk.vy, dt)
        over == \/ Abs(fx) > maxPuckSpeed
                \/ Abs(fy) > maxPuckSpeed
                \/ fx * fx + fy * fy > maxPuckSpeed * maxPuckSpeed
        speed == Hypot(fx, fy)
    IN  [g EXCEPT !.puckTrail = Unshift(@, [x |-> pk.x, y |-> pk.y]),
                  !.puck = [x |-> pk.x + pk.vx * dt,
                            y |-> pk.y + pk.vy * dt,
                            vx |-> IF over THEN Scale(fx, maxPuckSpeed \div 10, speed \div 10)
                                   ELSE fx,
                            vy |-> IF over THEN Scale(fy, maxPuckSpeed \div 10, speed \div 10)
                                   ELSE fy]]

\* The left and right walls that turn the puck back at its full speed
Game_sideWalls_FullBounce(m) ==
    LET g == m.g
    IN  IF g.puck.x < wallLeft(g)
        THEN Audio_play([m EXCEPT !.g.puck.x = wallLeft(g),
                                  !.g.puck.vx = -g.puck.vx], "wall")
        ELSE IF g.puck.x > wallRight(g)
        THEN Audio_play([m EXCEPT !.g.puck.x = wallRight(g),
                                  !.g.puck.vx = -g.puck.vx], "wall")
        ELSE m

\* The left and right walls that turn the puck back where it is
Game_sideWalls_KeepsX(m) ==
    LET g == m.g
    IN  IF g.puck.x < wallLeft(g) \/ g.puck.x > wallRight(g)
        THEN Audio_play([m EXCEPT !.g.puck.vx = Scale(-g.puck.vx, 9, 10)], "wall")
        ELSE m

\* Game.updatePhysics, the left and right walls
Game_sideWalls(m) ==
    LET g == m.g
    IN  IF g.puck.x < wallLeft(g)
        THEN Audio_play([m EXCEPT !.g.puck.x = wallLeft(g),
                                  !.g.puck.vx = Scale(-g.puck.vx, 9, 10)], "wall")
        ELSE IF g.puck.x > wallRight(g)
        THEN Audio_play([m EXCEPT !.g.puck.x = wallRight(g),
                                  !.g.puck.vx = Scale(-g.puck.vx, 9, 10)], "wall")
        ELSE m

\* Game.checkPaddleCollision
Game_checkPaddleCollision(m, paddle) ==
    LET g == m.g
        dx == g.puck.x - paddle.x
        dy == g.puck.y - paddle.y
        minDist == g.puckRadius + g.paddleRadius
    IN  IF Abs(dx) >= minDist \/ Abs(dy) >= minDist THEN m
        ELSE
        LET dist == SqrtIn(dx * dx + dy * dy, 0, 46340)
        IN  IF ~(dist < minDist /\ dist > 0) THEN m
            ELSE
            LET nx == Scale(dx, 1000, dist)
                ny == Scale(dy, 1000, dist)
                overlap == minDist - dist
                relVx == g.puck.vx - paddle.vx
                relVy == g.puck.vy - paddle.vy
                relVelNormal == Scale(relVx * nx + relVy * ny, 1, 1000)
                m1 == [m EXCEPT !.g.puck.x = @ + Scale(nx, overlap, 1000),
                                !.g.puck.y = @ + Scale(ny, overlap, 1000)]
            IN  IF relVelNormal < 0
                THEN Audio_play(
                       [m1 EXCEPT
                          !.g.puck.vx = @ - Scale(Scale(relVelNormal, 21, 10), nx, 1000)
                                          + Scale(paddle.vx, 5, 10),
                          !.g.puck.vy = @ - Scale(Scale(relVelNormal, 21, 10), ny, 1000)
                                          + Scale(paddle.vy, 5, 10)],
                       "hit")
                ELSE m1

\* Game.updatePhysics after the walls: both paddles, then the state for the
\* opponent
Game_paddles(m) ==
    LET m1 == Game_checkPaddleCollision(m, m.g.playerPaddle)
    IN  Game_send(Game_checkPaddleCollision(m1, m1.g.opponentPaddle))

\* Game.updatePhysics, the top wall and then, unless a goal has returned,
\* the bottom wall, with a goal where the comparisons with goalLeft and
\* goalRight are not strict
Game_endWalls_GoalAtEdge(m) ==
    LET g == m.g
        top == IF g.puck.y < wallTop(g)
               THEN IF g.puck.x >= goalLeft(g) /\ g.puck.x <= goalRight(g)
                    THEN Game_goalScored(m, "player")
                    ELSE Audio_play([m EXCEPT !.g.puck.y = wallTop(g),
                                              !.g.puck.vy = Scale(-g.puck.vy, 9, 10)],
                                    "wall")
               ELSE m
        h == top.g
    IN  IF top.goals # <<>> THEN top
        ELSE IF h.puck.y > wallBottom(h)
        THEN IF h.puck.x >= goalLeft(h) /\ h.puck.x <= goalRight(h)
             THEN Game_goalScored(top, "opponent")
             ELSE Audio_play([top EXCEPT !.g.puck.y = wallBottom(h),
                                         !.g.puck.vy = Scale(-h.puck.vy, 9, 10)],
                             "wall")
        ELSE top

\* Game.updatePhysics, the top wall and then, unless a goal has returned,
\* the bottom wall
Game_endWalls(m) ==
    LET g == m.g
        top == IF g.puck.y < wallTop(g)
               THEN IF g.puck.x > goalLeft(g) /\ g.puck.x < goalRight(g)
                    THEN Game_goalScored(m, "player")
                    ELSE Audio_play([m EXCEPT !.g.puck.y = wallTop(g),
                                              !.g.puck.vy = Scale(-g.puck.vy, 9, 10)],
                                    "wall")
               ELSE m
        h == top.g
    IN  IF top.goals # <<>> THEN top
        ELSE IF h.puck.y > wallBottom(h)
        THEN IF h.puck.x > goalLeft(h) /\ h.puck.x < goalRight(h)
             THEN Game_goalScored(top, "opponent")
             ELSE Audio_play([top EXCEPT !.g.puck.y = wallBottom(h),
                                         !.g.puck.vy = Scale(-h.puck.vy, 9, 10)],
                             "wall")
        ELSE top

\* Game.updatePhysics: a goal returns, otherwise the paddles and the state
\* for the opponent follow the walls
Game_updatePhysics(m, dt) ==
    LET w == Game_endWalls(Game_sideWalls([m EXCEPT !.g = Game_move(m.g, dt)]))
    IN  IF w.goals # <<>> THEN w ELSE Game_paddles(w)

\* Game.gameLoop that does not look at isRunning
Game_gameLoop_Unguarded(m, dt) ==
    LET m1 == [m EXCEPT !.ticks = @ + 1, !.slow = IF dt > 1 THEN @ + 1 ELSE @]
    IN  IF m.g.isHost THEN Game_updatePhysics(m1, dt) ELSE m1

\* Game.gameLoop called by requestAnimationFrame, dt frames after the
\* previous call
Game_gameLoop(m, dt) ==
    LET m1 == [m EXCEPT !.ticks = @ + 1, !.slow = IF dt > 1 THEN @ + 1 ELSE @]
    IN  IF ~m.g.isRunning THEN [m1 EXCEPT !.loops = @ - 1]
        ELSE IF m.g.isHost THEN Game_updatePhysics(m1, dt)
        ELSE m1

\* Game.start that keeps the paddles and the trail of the match before
Game_start_KeepsPaddles(m, isHost, v) ==
    LET g == m.g
        g1 == [g EXCEPT
                 !.isHost = isHost,
                 !.score = [player |-> 0, opponent |-> 0],
                 !.isRunning = TRUE,
                 !.hasPuck = TRUE,
                 !.puck = [x |-> g.width \div 2, y |-> g.height \div 2,
                           vx |-> IF isHost THEN v.vx ELSE 0,
                           vy |-> IF isHost THEN v.vy ELSE 0]]
        m1 == [m EXCEPT !.g = g1, !.starts = @ + 1, !.loops = @ + 1]
    IN  IF isHost THEN Game_updatePhysics(m1, 0) ELSE m1

\* Game.start, with the puck velocity the random angle and side give the host
Game_start(m, isHost, v) ==
    LET g == m.g
        g1 == [g EXCEPT
                 !.isHost = isHost,
                 !.score = [player |-> 0, opponent |-> 0],
                 !.isRunning = TRUE,
                 !.hasPuck = TRUE,
                 !.puck = [x |-> g.width \div 2, y |-> g.height \div 2,
                           vx |-> IF isHost THEN v.vx ELSE 0,
                           vy |-> IF isHost THEN v.vy ELSE 0],
                 !.playerPaddle = [x |-> g.width \div 2,
                                   y |-> g.height - g.paddleRadius - g.wallThickness - 20 * Px,
                                   vx |-> 0, vy |-> 0],
                 !.opponentPaddle = [x |-> g.width \div 2,
                                     y |-> g.paddleRadius + g.wallThickness + 20 * Px,
                                     vx |-> 0, vy |-> 0, lastX |-> 0, lastY |-> 0],
                 !.puckTrail = <<>>]
        m1 == [m EXCEPT !.g = g1, !.starts = @ + 1, !.loops = @ + 1]
    IN  IF isHost THEN Game_updatePhysics(m1, 0) ELSE m1

\* Game.resetPuck that sends the puck toward the side that scored
Game_resetPuck_TowardScorer(m, towardPlayer, v) ==
    Game_send([m EXCEPT !.g.puck = [x |-> m.g.width \div 2, y |-> m.g.height \div 2,
                                    vx |-> v.vx,
                                    vy |-> IF towardPlayer THEN -v.vy ELSE v.vy],
                        !.g.puckTrail = <<>>])

\* Game.resetPuck, with the puck velocity the random angle gives
Game_resetPuck(m, towardPlayer, v) ==
    Game_send([m EXCEPT !.g.puck = [x |-> m.g.width \div 2, y |-> m.g.height \div 2,
                                    vx |-> v.vx,
                                    vy |-> IF towardPlayer THEN v.vy ELSE -v.vy],
                        !.g.puckTrail = <<>>])

\* The callback of the setTimeout of Game.goalScored
Game_resetTimer(m, v) ==
    LET r == Head(m.resets)
        m1 == [m EXCEPT !.resets = Tail(@), !.fired = @ + 1]
    IN  IF m1.g.isRunning THEN Game_resetPuck(m1, r.scorer = "opponent", v) ELSE m1

\* Game.updateOpponentPaddle, with the Game object in thousandths of a pixel;
\* lastX and lastY that are not set yet (0 here) are read as the new position
Match_updateOpponentPaddle(m, x, y) ==
    LET g == m.g
        op == g.opponentPaddle
        px == g.width - x
        py == g.height - y
    IN  IF ~g.hasPuck THEN m
        ELSE [m EXCEPT !.g.opponentPaddle =
                 [x |-> px, y |-> py,
                  vx |-> Scale(px - (IF op.lastX = 0 THEN px ELSE op.lastX), 3, 10),
                  vy |-> Scale(py - (IF op.lastY = 0 THEN py ELSE op.lastY), 3, 10),
                  lastX |-> px, lastY |-> py]]

\* Game.updateFromHost, with the Game object in thousandths of a pixel
Match_updateFromHost(m, state) ==
    LET g == m.g
        pk == [x |-> g.width - state.puck.x, y |-> g.height - state.puck.y,
               vx |-> -state.puck.vx, vy |-> -state.puck.vy]
        sc == [player |-> state.score.opponent, opponent |-> state.score.player]
        m1 == [m EXCEPT !.g.puck = pk,
                        !.g.puckTrail = Unshift(@, [x |-> pk.x, y |-> pk.y]),
                        !.g.score = sc]
        m2 == IF sc.player > g.score.player \/ sc.opponent > g.score.opponent
              THEN Audio_play(m1, "goal") ELSE m1
    IN  IF g.isHost \/ ~g.hasPuck THEN m
        ELSE IF sc.player >= winningScore THEN Match_gameOver(m2, TRUE)
        ELSE IF sc.opponent >= winningScore THEN Match_gameOver(m2, FALSE)
        ELSE m2

\* handleMove of Game.setupInput, with the pointer at (x, y) of the canvas
Game_handleMove(m, x, y) ==
    LET g == m.g
        pp == g.playerPaddle
        minX == g.paddleRadius + g.wallThickness
        maxX == g.width - g.paddleRadius - g.wallThickness
        minY == g.height \div 2 + g.paddleRadius + 10 * Px
        maxY == g.height - g.paddleRadius - g.wallThickness
        Max(a, b) == IF a > b THEN a ELSE b
        Min(a, b) == IF a < b THEN a ELSE b
        m1 == [m EXCEPT !.moves = @ + 1, !.g.playerPaddle =
                 [vx |-> Scale(x - pp.x, 3, 10), vy |-> Scale(y - pp.y, 3, 10),
                  x |-> Max(minX, Min(maxX, x)), y |-> Max(minY, Min(maxY, y))]]
    IN  IF ~g.isRunning \/ ~g.hasPuck THEN m
        ELSE IF m1.isConnected
        THEN [m1 EXCEPT !.paddleSentNow = @ + 1,
                        !.paddleWire = [x |-> m1.g.playerPaddle.x,
                                        y |-> m1.g.playerPaddle.y]]
        ELSE m1

\* A host and its guest after page load, the channel between them open and
\* empty: the two Game objects, the messages in flight to the guest (oldest
\* first), the UI.startGame callbacks pending on each, the host's pending
\* game-over timers and its screen
SyncIdle ==
    [host |-> MatchIdle, guest |-> MatchIdle, toGuest |-> <<>>,
     rafHost |-> 0, rafGuest |-> 0, showHost |-> 0, screenHost |-> "game"]

-----------------------------------------------------------------------------
(* State after page load on both browsers.                                 *)

SessionInit ==
    /\ net = [b \in Browsers |-> NetworkInit]
    /\ game = [b \in Browsers |-> GameInit]
    /\ ui = [b \in Browsers |-> UIInit]
    /\ raf = [b \in Browsers |-> <<>>]
    /\ timers = [b \in Browsers |-> TimersInit]
    /\ peers = <<>>
    /\ conns = <<>>
    /\ did = {}

Init ==
    /\ SessionInit
    /\ thr = ThrottleInit
    /\ mir = MirrorIdle
    /\ mat = MatchIdle
    /\ syn = SyncIdle

WithinBounds(s) ==
    /\ Len(s.peers) <= MaxPeers
    /\ Len(s.conns) <= MaxConns
    /\ \A b \in Browsers :
          /\ Len(s.raf[b]) <= MaxRaf
          /\ s.timers[b].reset <= MaxTimers
          /\ s.timers[b].show <= MaxTimers
    /\ \A k \in 1..Len(s.conns) : \A sd \in Sides :
          Len(s.conns[k].end[sd].q) <= MaxQueue

Apply(s) ==
    /\ WithinBounds(s)
    /\ net' = s.net
    /\ game' = s.game
    /\ ui' = s.ui
    /\ raf' = s.raf
    /\ timers' = s.timers
    /\ peers' = s.peers
    /\ conns' = s.conns
    /\ did' = s.did
    /\ UNCHANGED <<thr, mir, mat, syn>>

showScreen(s, b, name) == [s EXCEPT !.ui[b].screen = name]

-----------------------------------------------------------------------------
(* The user: js/ui.js, UI.setupButtons.                                    *)

\* create-btn: UI.createGame
ClickCreate(b, code) ==
    /\ ui[b].screen = "menu"
    /\ Apply(createGame(showScreen(S, b, "create"), b, code))

\* join-btn
ClickJoin(b) ==
    /\ ui[b].screen = "menu"
    /\ Apply(showScreen(S, b, "join"))

\* cancel-create-btn
CancelCreate(b) ==
    /\ ui[b].screen = "create"
    /\ Apply(showScreen(disconnect(S, b), b, "menu"))

\* connect-btn, the fourth digit typed, or Enter: UI.joinGame
Connect(b, code) ==
    /\ ui[b].screen = "join"
    /\ Apply(joinGame(S, b, code))

\* cancel-join-btn
CancelJoin(b) ==
    /\ ui[b].screen = "join"
    /\ Apply(showScreen(S, b, "menu"))

\* play-again-btn
PlayAgain(b) ==
    /\ ui[b].screen = "gameover"
    /\ Apply(IF net[b].isConnected
             THEN startGame(sendPlayAgain(S, b), b, net[b].isHost)
             ELSE showScreen(S, b, "menu"))

\* menu-btn
MenuBtn(b) ==
    /\ ui[b].screen = "gameover"
    /\ Apply(showScreen(disconnect(S, b), b, "menu"))

\* back-to-menu-btn, on the connection-lost overlay
BackToMenu(b) ==
    /\ ui[b].connectionLost
    /\ Apply(showScreen(
                stop(disconnect([S EXCEPT !.ui[b].connectionLost = FALSE], b), b),
                b, "menu"))

-----------------------------------------------------------------------------
(* The transport's events.                                                 *)

HostOpenWith(ps, code) ==
    {p \in 1..Len(ps) : ps[p].kind = "host" /\ ps[p].st = "open" /\ ps[p].code = code}

\* peer.on('open') of Network.createGame
HostPeerOpen(p) ==
    /\ peers[p].kind = "host" /\ peers[p].st = "new"
    /\ HostOpenWith(peers, peers[p].code) = {}
    /\ Apply(resolve([S EXCEPT !.peers[p].st = "open"], p))

\* peer.on('open') of Network.joinGame: this.peer.connect(hostId)
GuestPeerOpen(p) ==
    /\ peers[p].kind = "guest" /\ peers[p].st = "new"
    /\ LET b == peers[p].owner
           s1 == [S EXCEPT !.peers[p].st = "open"]
           k == Len(conns) + 1
       IN  Apply(IF s1.net[b].peer = NoPeer
                 THEN Emit(s1, "TypeError:peerOpen", b)
                 ELSE [s1 EXCEPT
                         !.conns = Append(@, [from |-> s1.net[b].peer, via |-> p,
                                              to |-> peers[p].code, hpeer |-> NoPeer,
                                              readys |-> 0,
                                              end |-> [sd \in Sides |-> EndInit]]),
                         !.net[b].connection = [k |-> k, side |-> "g"]])

\* The offer reaches the host: peer.on('connection') of Network.createGame
ConnArrive(k) ==
    /\ conns[k].hpeer = NoPeer
    /\ ~conns[k].end["g"].closed
    /\ peers[conns[k].from].st = "open"
    /\ \E hp \in HostOpenWith(peers, conns[k].to) :
          Apply([S EXCEPT !.conns[k].hpeer = hp,
                          !.net[peers[hp].owner].connection = [k |-> k, side |-> "h"]])

\* No peer has the id: the connection never opens, and the Peer that asked
\* gets 'error' (peer-unavailable), which rejects the call that made it
ConnUnavailable(k) ==
    /\ conns[k].hpeer = NoPeer
    /\ ~conns[k].end["g"].closed
    /\ peers[conns[k].from].st = "open"
    /\ HostOpenWith(peers, conns[k].to) = {}
    /\ Apply(reject([S EXCEPT !.conns[k].end["g"] = EndClosed], conns[k].from))

\* conn.on('open'), host side (createGame) and guest side (joinGame)
ConnOpen(k, sd) ==
    /\ conns[k].hpeer # NoPeer
    /\ ~conns[k].end[sd].open /\ ~conns[k].end[sd].closed
    /\ ~conns[k].end[Other(sd)].closed
    /\ LET s1 == setupConnection([S EXCEPT !.conns[k].end[sd].open = TRUE],
                                  EndOwner(S, k, sd))
       IN  Apply(IF sd = "g" THEN resolve(s1, conns[k].via) ELSE s1)

\* connection.on('data')
Deliver(k, sd) ==
    /\ EndLive(conns[k].end[sd])
    /\ conns[k].end[sd].q # <<>>
    /\ Apply(dispatch([S EXCEPT !.conns[k].end[sd].q = Tail(@)],
                      EndOwner(S, k, sd), Head(conns[k].end[sd].q),
                      conns[k].end[sd].handlers))

\* The other side has closed: connection.on('close')
CloseArrive(k, sd) ==
    /\ conns[k].hpeer # NoPeer
    /\ conns[k].end[Other(sd)].closed
    /\ ~conns[k].end[sd].closed
    /\ Apply(connClose(S, k, sd))

-----------------------------------------------------------------------------
(* Timers and animation frames.                                            *)

\* The 500 ms timer of Network.setupConnection
ReadyTimer(b) ==
    /\ timers[b].ready > 0
    /\ Apply(Send([S EXCEPT !.timers[b].ready = @ - 1], b, Msg("ready")))

\* The 1500 ms timer of Game.goalScored
ResetTimer(b, due) ==
    /\ timers[b].reset > 0
    /\ LET s1 == [S EXCEPT !.timers[b].reset = @ - 1]
       IN  Apply(IF game[b].isRunning THEN resetPuck(s1, b, due) ELSE s1)

\* The 1000 ms timer of UI.showGameOver
ShowTimer(b) ==
    /\ timers[b].show > 0
    /\ Apply(showScreen([S EXCEPT !.timers[b].show = @ - 1], b, "gameover"))

\* The oldest pending animation-frame callback runs
Frame(b, o, due) ==
    /\ raf[b] # <<>>
    /\ LET cb == Head(raf[b])
           s1 == [S EXCEPT !.raf[b] = Tail(@)]
       IN  Apply(IF cb.kind = "start" THEN start(s1, b, cb.isHost, due)
                 ELSE gameLoop(s1, b, o, due))

Next ==
    \/ \E b \in Creators, code \in Codes : ClickCreate(b, code)
    \/ \E b \in Joiners : ClickJoin(b)
    \/ \E b \in Browsers : CancelCreate(b)
    \/ \E b \in Browsers, code \in Codes : Connect(b, code)
    \/ \E b \in Browsers : CancelJoin(b)
    \/ \E b \in Browsers : PlayAgain(b)
    \/ \E b \in Browsers : MenuBtn(b)
    \/ \E b \in Browsers : BackToMenu(b)
    \/ \E p \in 1..Len(peers) : HostPeerOpen(p)
    \/ \E p \in 1..Len(peers) : GuestPeerOpen(p)
    \/ \E k \in 1..Len(conns) : ConnArrive(k)
    \/ \E k \in 1..Len(conns) : ConnUnavailable(k)
    \/ \E k \in 1..Len(conns), sd \in Sides : ConnOpen(k, sd)
    \/ \E k \in 1..Len(conns), sd \in Sides : Deliver(k, sd)
    \/ \E k \in 1..Len(conns), sd \in Sides : CloseArrive(k, sd)
    \/ \E b \in Browsers : ReadyTimer(b)
    \/ \E b \in Browsers, due \in BOOLEAN : ResetTimer(b, due)
    \/ \E b \in Browsers : ShowTimer(b)
    \/ \E b \in Browsers, o \in Outcomes, due \in BOOLEAN : Frame(b, o, due)

Spec == Init /\ [][Next]_vars

-----------------------------------------------------------------------------
(* The roles: the menu offers both buttons to every user, so either        *)
(* browser may create and may join, one after the other.  No tick scores   *)
(* here, so the screens and timers that follow a goal stay with Spec.      *)

NextRoles ==
    \/ \E b \in Browsers, code \in Codes : ClickCreate(b, code)
    \/ \E b \in Browsers : ClickJoin(b)
    \/ \E b \in Browsers : CancelCreate(b)
    \/ \E b \in Browsers, code \in Codes : Connect(b, code)
    \/ \E b \in Browsers : CancelJoin(b)
    \/ \E b \in Browsers : BackToMenu(b)
    \/ \E p \in 1..Len(peers) : HostPeerOpen(p)
    \/ \E p \in 1..Len(peers) : GuestPeerOpen(p)
    \/ \E k \in 1..Len(conns) : ConnArrive(k)
    \/ \E k \in 1..Len(conns) : ConnUnavailable(k)
    \/ \E k \in 1..Len(conns), sd \in Sides : ConnOpen(k, sd)
    \/ \E k \in 1..Len(conns), sd \in Sides : Deliver(k, sd)
    \/ \E k \in 1..Len(conns), sd \in Sides : CloseArrive(k, sd)
    \/ \E b \in Browsers : ReadyTimer(b)
    \/ \E b \in Browsers, due \in BOOLEAN : Frame(b, Moved, due)

SpecRoles == Init /\ [][NextRoles]_vars

-----------------------------------------------------------------------------
(* The rematch: either browser may create and may join, a frame may score  *)
(* the winning goal, and the game-over screen offers play-again.           *)

WinningGoals == [goal : {TRUE}, scorer : {"player", "opponent"}, reaches : {TRUE}]

NextRematch ==
    \/ NextRoles
    \/ \E b \in Browsers, o \in WinningGoals, due \in BOOLEAN : Frame(b, o, due)
    \/ \E b \in Browsers : ShowTimer(b)
    \/ \E b \in Browsers : PlayAgain(b)

SpecRematch == Init /\ [][NextRematch]_vars

-----------------------------------------------------------------------------
(* Establishing a session, with the one-shot timers of Network.createGame  *)
(* and Network.joinGame.  A timer fires whenever its delay has passed,     *)
(* which may be before or after any transport event.  No tick scores.      *)

\* The 60000 ms timer of Network.createGame
CreateTimeout(p) ==
    /\ peers[p].kind = "host" /\ peers[p].timer
    /\ Apply(establishmentTimeout(S, p))

\* The 10000 ms timer of Network.joinGame
JoinTimeout(p) ==
    /\ peers[p].kind = "guest" /\ peers[p].timer
    /\ Apply(establishmentTimeout(S, p))

NextConnect ==
    \/ \E b \in Creators, code \in Codes : ClickCreate(b, code)
    \/ \E b \in Joiners : ClickJoin(b)
    \/ \E b \in Browsers : CancelCreate(b)
    \/ \E b \in Browsers, code \in Codes : Connect(b, code)
    \/ \E b \in Browsers : CancelJoin(b)
    \/ \E p \in 1..Len(peers) : HostPeerOpen(p)
    \/ \E p \in 1..Len(peers) : GuestPeerOpen(p)
    \/ \E k \in 1..Len(conns) : ConnArrive(k)
    \/ \E k \in 1..Len(conns) : ConnUnavailable(k)
    \/ \E k \in 1..Len(conns), sd \in Sides : ConnOpen(k, sd)
    \/ \E k \in 1..Len(conns), sd \in Sides : Deliver(k, sd)
    \/ \E k \in 1..Len(conns), sd \in Sides : CloseArrive(k, sd)
    \/ \E b \in Browsers : ReadyTimer(b)
    \/ \E b \in Browsers, due \in BOOLEAN : Frame(b, Moved, due)
    \/ \E p \in 1..Len(peers) : CreateTimeout(p)
    \/ \E p \in 1..Len(peers) : JoinTimeout(p)

SpecConnect == Init /\ [][NextConnect]_vars

-----------------------------------------------------------------------------
(* Creating a room when the identity may be taken: both browsers create,   *)
(* generateRoomCode draws the code, and the transport answers a new Peer   *)
(* with 'open' or, when an open Peer holds the identity, with the error    *)
(* unavailable-id.  A Peer made here also records the call whose promise   *)
(* settles with its own (`outer`) and the value its promise resolved with. *)

\* Math.random() in ten-thousandths: the ends of [0, 1)
RandomSteps == 10000
Randoms == {0, RandomSteps - 1}

\* Network.generateRoomCode: Math.floor(1000 + Math.random() * 9000)
generateRoomCode(r) == 1000 + (r * 9000) \div RandomSteps

\* Network.createGame called with the random number r; `outer` is the call
\* that retries (NoPeer when UI.createGame calls)
createGameCall(s, b, r, outer) ==
    LET s1 == createGame(s, b, generateRoomCode(r))
    IN  [s1 EXCEPT !.peers[Len(s1.peers)] = @ @@ [outer |-> outer, value |-> NoCode]]

\* resolve(v) of the call that made peer p, and .then(resolve) of the call
\* that retried with it; the awaiting UI.createGame writes the code
RECURSIVE resolveCall(_, _, _)
resolveCall(s, p, v) ==
    IF s.peers[p].promise # "pending" THEN s
    ELSE LET s1 == [s EXCEPT !.peers[p].promise = "resolved", !.peers[p].value = v]
         IN  IF s.peers[p].outer = NoPeer THEN s1
             ELSE resolveCall(s1, s.peers[p].outer, v)

\* reject(err) of the call that made peer p, and .catch(reject) of the call
\* that retried with it; the catch of the awaiting UI.createGame alerts and
\* shows the menu
RECURSIVE rejectCall(_, _)
rejectCall(s, p) ==
    IF s.peers[p].promise # "pending" THEN s
    ELSE LET s1 == [s EXCEPT !.peers[p].promise = "rejected"]
         IN  IF s.peers[p].outer = NoPeer
             THEN Emit(showScreen(s1, s.peers[p].owner, "menu"), "createFailed",
                       s.peers[p].owner)
             ELSE rejectCall(s1, s.peers[p].outer)

\* peer.on('error') of Network.createGame with err.type 'unavailable-id', on
\* the Peer p that asked for the identity, with the random numbers of the
\* two generateRoomCode calls that follow; the transport destroys a Peer
\* after a fatal error
onUnavailableId(s, p, r1, r2) ==
    LET b == s.peers[p].owner
        cur == s.net[b].peer
        done == peerDestroy(s, p)
    IN  IF cur = NoPeer THEN Emit(done, "TypeError:peerError", b)
        ELSE peerDestroy(
               createGameCall([peerDestroy(s, cur) EXCEPT
                                 !.net[b].roomCode = generateRoomCode(r1)],
                              b, r2, p),
               p)

\* create-btn: UI.createGame
CreateClick(b, r) ==
    /\ ui[b].screen = "menu"
    /\ Apply(createGameCall(showScreen(S, b, "create"), b, r, NoPeer))

\* peer.on('open') of Network.createGame: resolve(this.roomCode)
CreateOpen(p) ==
    /\ peers[p].kind = "host" /\ peers[p].st = "new"
    /\ HostOpenWith(peers, peers[p].code) = {}
    /\ Apply(resolveCall([S EXCEPT !.peers[p].st = "open"], p,
                         net[peers[p].owner].roomCode))

\* The identity is taken: peer.on('error') with 'unavailable-id'
IdTaken(p, r1, r2) ==
    /\ peers[p].kind = "host" /\ peers[p].st = "new"
    /\ HostOpenWith(peers, peers[p].code) # {}
    /\ Apply(onUnavailableId(S, p, r1, r2))

\* The 60000 ms timer of a Network.createGame call
CreateCallTimeout(p) ==
    /\ peers[p].kind = "host" /\ peers[p].timer
    /\ LET b == peers[p].owner
           s1 == [S EXCEPT !.peers[p].timer = FALSE]
       IN  Apply(IF ~net[b].isConnected THEN rejectCall(s1, p) ELSE s1)

NextCreate ==
    \/ \E b \in Browsers, r \in Randoms : CreateClick(b, r)
    \/ \E b \in Browsers : CancelCreate(b)
    \/ \E p \in 1..Len(peers) : CreateOpen(p)
    \/ \E p \in 1..Len(peers), r1 \in Randoms, r2 \in Randoms : IdTaken(p, r1, r2)
    \/ \E p \in 1..Len(peers) : CreateCallTimeout(p)

SpecCreate == Init /\ [][NextCreate]_vars

-----------------------------------------------------------------------------
(* The throttle alone: the clock moves, the host's loop attempts to send.  *)

sessionVars == <<net, game, ui, raf, timers, peers, conns, did>>

\* Time passes
Advance(d) ==
    /\ thr.now + d <= PageLoad + Window
    /\ thr' = [thr EXCEPT !.now = @ + d]
    /\ UNCHANGED <<sessionVars, mir, mat, syn>>

\* Game.updatePhysics or Game.resetPuck calls Network.sendGameState
Attempt ==
    /\ thr' = [Network_sendGameState(thr, thr.now) EXCEPT
                  !.every5 = IF thr.every5 >= 0 /\ thr.now = thr.every5 + 5
                             THEN thr.now ELSE -1]
    /\ UNCHANGED <<sessionVars, mir, mat, syn>>

NextThrottle ==
    \/ \E d \in Delays : Advance(d)
    \/ Attempt

SpecThrottle == Init /\ [][NextThrottle]_vars

-----------------------------------------------------------------------------
(* The mirror alone: a guest in some arena is given a state message, and   *)
(* then the state it now holds, as a message again.                       *)

InitMirror ==
    /\ SessionInit
    /\ thr = ThrottleInit
    /\ \E a \in Arenas : mir = [MirrorIdle EXCEPT !.g = GuestGame(a)]
    /\ mat = MatchIdle
    /\ syn = SyncIdle

\* connection.on('data') with a gameState message: Game.updateFromHost
Receive(state) ==
    /\ mir.n = 0
    /\ mir' = [g |-> Game_updateFromHost(mir.g, state), kind |-> "gameState",
               given |-> state, n |-> 1]
    /\ UNCHANGED <<sessionVars, thr, mat, syn>>

\* connection.on('data') with a paddle message: Game.updateOpponentPaddle
ReceivePaddle(x, y) ==
    /\ mir.n = 0
    /\ mir' = [g |-> Game_updateOpponentPaddle(mir.g, x, y), kind |-> "paddle",
               given |-> [NoState EXCEPT !.puck.x = x, !.puck.y = y], n |-> 1]
    /\ UNCHANGED <<sessionVars, thr, mat, syn>>

\* The state the guest holds comes back as a message
ReceiveBack ==
    /\ mir.n = 1 /\ mir.kind = "gameState"
    /\ mir' = [mir EXCEPT !.g = Game_updateFromHost(mir.g, StateOf(mir.g)), !.n = 2]
    /\ UNCHANGED <<sessionVars, thr, mat, syn>>

\* The position the guest holds for the opponent comes back as a message
ReceivePaddleBack ==
    /\ mir.n = 1 /\ mir.kind = "paddle"
    /\ mir' = [mir EXCEPT !.g = Game_updateOpponentPaddle(
                                    mir.g, mir.g.opponentPaddle.x, mir.g.opponentPaddle.y),
                          !.n = 2]
    /\ UNCHANGED <<sessionVars, thr, mat, syn>>

NextMirror ==
    \/ \E state \in States : Receive(state)
    \/ \E x \in Coords, y \in Coords : ReceivePaddle(x, y)
    \/ ReceiveBack
    \/ ReceivePaddleBack

SpecMirror == InitMirror /\ [][NextMirror]_vars

-----------------------------------------------------------------------------
(* The match on the host: one Game object from page load, through          *)
(* Game.start(true), the frames of the loop, the pointer of the local      *)
(* player and the 1500 ms timers of the goals.                             *)

MaxStarts == 2
MaxTicks == 30
MaxSlow == 1
MaxFired == 2

\* Math.sin(angle) * 8 and Math.cos(angle) * 8 * (+1 or -1) of Game.start,
\* for angles of 60, -45 and -75 degrees
StartVelocities ==
    {[vx |-> 6928, vy |-> 4000], [vx |-> 6928, vy |-> -4000],
     [vx |-> -5657, vy |-> 5657], [vx |-> -7727, vy |-> -2071]}

\* Math.sin(angle) * 8 and Math.cos(angle) * 8 of Game.resetPuck, for angles
\* of 0 and 22.5 degrees to either side and of -45 degrees, the end of the
\* range
ResetVelocities ==
    {[vx |-> 0, vy |-> 8000], [vx |-> 3061, vy |-> 7391], [vx |-> -3061, vy |-> 7391],
     [vx |-> -5657, vy |-> 5657]}

\* Frames since the previous call of the loop: a frame on time, a late one
Dts == {1, 2}

MatchBounds(m) ==
    /\ m.starts <= MaxStarts
    /\ m.ticks <= MaxTicks
    /\ m.slow <= MaxSlow
    /\ m.fired <= MaxFired

MatchApply(m) ==
    /\ MatchBounds(m)
    /\ mat' = m
    /\ UNCHANGED <<sessionVars, thr, mir, syn>>

\* UI.startGame(true) on the host: Game.start(true)
MatchStart(v) ==
    /\ mat.starts < MaxStarts
    /\ MatchApply(Game_start(Handler(mat), TRUE, v))

\* A frame of the display runs a pending callback of the loop
Tick(dt) ==
    /\ mat.loops > 0
    /\ MatchApply(Game_gameLoop(Handler(mat), dt))

\* 1500 ms after a goal
ResetFire(v) ==
    /\ mat.resets # <<>>
    /\ MatchApply(Game_resetTimer(Handler(mat), v))

NextMatch ==
    \/ \E v \in StartVelocities : MatchStart(v)
    \/ \E dt \in Dts : Tick(dt)
    \/ \E v \in ResetVelocities : ResetFire(v)

SpecMatch == Init /\ [][NextMatch]_vars

-----------------------------------------------------------------------------
(* One frame of the host's physics from a position of play: the puck near  *)
(* a wall, near an edge of a goal mouth or in the open, at rest or moving, *)
(* at the first goal of a match or at its last.                            *)

MaxFrames == 2

PuckXs == {6 * Px, 7 * Px, 29 * Px, 30 * Px, 30 * Px + 1, 50 * Px,
           70 * Px - 1, 70 * Px, 71 * Px, 93 * Px}
PuckYs == {8 * Px, 75 * Px, 142 * Px}
PuckVxs == {-3 * Px, -2 * Px, 0, Px}
PuckVys == {-3 * Px, 0, 3 * Px}
PlayScores == {[player |-> 0, opponent |-> 0], [player |-> 10, opponent |-> 10]}

\* Frames since the previous call of the loop, up to the cap
FrameDts == {0, 1, 2}

InPlay(pk, sc) ==
    LET m == Game_start(MatchIdle, TRUE, [vx |-> 0, vy |-> 0])
    IN  [m EXCEPT !.g.puck = pk, !.g.score = sc]

InitTick ==
    /\ SessionInit
    /\ thr = ThrottleInit
    /\ mir = MirrorIdle
    /\ syn = SyncIdle
    /\ \E x \in PuckXs, y \in PuckYs, vx \in PuckVxs, vy \in PuckVys, sc \in PlayScores :
          mat = InPlay([x |-> x, y |-> y, vx |-> vx, vy |-> vy], sc)

\* A frame of the display runs the loop
Frame1(dt) ==
    /\ mat.ticks < MaxFrames
    /\ Tick(dt)

NextTick == \E dt \in FrameDts : Frame1(dt)

SpecTick == InitTick /\ [][NextTick]_vars

-----------------------------------------------------------------------------
(* The Game object of either browser from page load: the canvas is         *)
(* measured and a match starts (UI.startGame), frames run, the pointer     *)
(* moves, the opponent's paddle positions arrive.                          *)

PlayStarts == 2
PlayTicks == 3
PlayMoves == 2

\* Rectangles the canvas can measure: upright, lying, and one too low for
\* a paddle to fit between the centre line's margin and the bottom wall
Tables == {[width |-> 100 * Px, height |-> 150 * Px],
           [width |-> 150 * Px, height |-> 100 * Px],
           [width |-> 40 * Px, height |-> 30 * Px]}

\* clientX - rect.left and clientY - rect.top of a pointer event
Pointers == {[x |-> -5 * Px, y |-> -5 * Px],
             [x |-> 60 * Px, y |-> 90 * Px],
             [x |-> 200 * Px, y |-> 200 * Px]}

\* x and y of a 'paddle' message
PaddleMessages == {[x |-> 50 * Px, y |-> 93 * Px], [x |-> 20 * Px, y |-> 60 * Px],
                   [x |-> 90 * Px, y |-> 93 * Px]}

\* The states the host sends: the puck in the host's frame, the host's score
HostStates ==
    {[puck |-> [x |-> 30 * Px, y |-> 40 * Px, vx |-> 1000, vy |-> -2000],
      score |-> [player |-> 2, opponent |-> 1]]}

PlayApply(m) ==
    /\ mat' = m
    /\ UNCHANGED <<sessionVars, thr, mir, syn>>

\* The callback of UI.startGame: Game.resize(), Game.start(isHost)
PlayStart(rect, isHost, v) ==
    /\ mat.starts < PlayStarts
    /\ PlayApply(Game_start([Handler(mat) EXCEPT !.g = Game_resize(@, rect)], isHost, v))

\* A frame of the display runs a pending callback of the loop
PlayTick(dt) ==
    /\ mat.loops > 0
    /\ mat.ticks < PlayTicks
    /\ PlayApply(Game_gameLoop(Handler(mat), dt))

\* mousemove, touchstart or touchmove on the canvas
PointerMove(x, y) ==
    /\ mat.g.hasPuck
    /\ mat.moves < PlayMoves
    /\ PlayApply(Game_handleMove(Handler(mat), x, y))

\* Network.handleMessage, case 'paddle'
PaddleArrives(x, y) ==
    /\ mat.g.hasPuck
    /\ mat.moves < PlayMoves
    /\ PlayApply(Match_updateOpponentPaddle([Handler(mat) EXCEPT !.moves = @ + 1], x, y))

\* A 'gameState' message of the host arrives at the guest
StateArrives(state) ==
    /\ mat.g.hasPuck
    /\ ~mat.g.isHost
    /\ mat.moves < PlayMoves
    /\ PlayApply(Match_updateFromHost([Handler(mat) EXCEPT !.moves = @ + 1], state))

NextPlay ==
    \/ \E rect \in Tables, isHost \in BOOLEAN, v \in StartVelocities :
          PlayStart(rect, isHost, v)
    \/ \E dt \in FrameDts : PlayTick(dt)
    \/ \E p \in Pointers : PointerMove(p.x, p.y)
    \/ \E p \in PaddleMessages : PaddleArrives(p.x, p.y)
    \/ \E s \in HostStates : StateArrives(s)

SpecPlay == Init /\ [][NextPlay]_vars

-----------------------------------------------------------------------------
(* A host and its guest in a match, with the channel from the host to the  *)
(* guest delivering in order: the host's frames score or send the state,   *)
(* its match ends, its user asks for another one, and the guest applies    *)
(* what arrives.  The physics of a frame is summarised by its outcome; the *)
(* scores are exact.                                                       *)

SyncStarts == 2
SyncTicks == 3
SyncQueue == 2

\* Scores a match can be at: its start, and one goal from its end
SyncScores == {[player |-> 0, opponent |-> 0], [player |-> 10, opponent |-> 9]}

\* What a frame of the host finds: no goal, or the scorer of one
SyncOutcomes == {"none", "player", "opponent"}

Swap(sc) == [player |-> sc.opponent, opponent |-> sc.player]

\* Both browsers are in their first match, the guest holding the host's score
SyncInPlay(sc, v) ==
    [SyncIdle EXCEPT
       !.host = [Game_start(MatchIdle, TRUE, v) EXCEPT !.g.score = sc],
       !.guest = [Game_start(MatchIdle, FALSE, v) EXCEPT !.g.score = Swap(sc)]]

InitSync ==
    /\ SessionInit
    /\ thr = ThrottleInit
    /\ mir = MirrorIdle
    /\ mat = MatchIdle
    /\ \E sc \in SyncScores, v \in StartVelocities : syn = SyncInPlay(sc, v)

\* Game.gameLoop on a frame whose physics has outcome o
Game_gameLoopOutcome(m, o) ==
    LET m1 == [m EXCEPT !.ticks = @ + 1]
    IN  IF ~m.g.isRunning THEN [m1 EXCEPT !.loops = @ - 1]
        ELSE IF ~m.g.isHost THEN m1
        ELSE IF o = "none" THEN Game_send(m1)
        ELSE Game_goalScored(m1, o)

\* The host's handler has turned its Game from m to m1: what it handed to
\* Network.sendGameState goes to the channel when the throttle lets it
\* (due), with the number of the match it comes from; UI.showGameOver sets
\* a 1000 ms timer for each Game.gameOver
HostDid(s, m1, due) ==
    [s EXCEPT
       !.host = m1,
       !.toGuest = IF m1.sentNow > 0 /\ due
                   THEN Append(@, [type |-> "gameState", state |-> m1.wire,
                                   match |-> m1.starts])
                   ELSE @,
       !.showHost = @ + Len(m1.overs) - Len(s.host.overs)]

SyncApply(s) ==
    /\ Len(s.toGuest) <= SyncQueue
    /\ syn' = s
    /\ UNCHANGED <<sessionVars, thr, mir, mat>>

\* A frame of the display on the host runs the loop
SyncTick(o, due) ==
    /\ syn.host.loops > 0
    /\ syn.host.ticks < SyncTicks
    /\ SyncApply(HostDid(syn, Game_gameLoopOutcome(Handler(syn.host), o), due))

\* 1500 ms after a goal on the host
SyncResetFire(v, due) ==
    /\ syn.host.resets # <<>>
    /\ SyncApply(HostDid(syn, Game_resetTimer(Handler(syn.host), v), due))

\* The 1000 ms timer of UI.showGameOver on the host
SyncShowTimer ==
    /\ syn.showHost > 0
    /\ SyncApply([syn EXCEPT !.showHost = @ - 1, !.screenHost = "gameover"])

\* play-again-btn on the host, whose channel is open: Network.sendPlayAgain
\* and UI.startGame(Network.isHost)
SyncPlayAgain ==
    /\ syn.screenHost = "gameover"
    /\ syn.host.starts + syn.rafHost < SyncStarts
    /\ SyncApply([syn EXCEPT
                    !.toGuest = Append(@, [type |-> "playAgain", state |-> NoState,
                                           match |-> syn.host.starts]),
                    !.screenHost = "game",
                    !.rafHost = @ + 1])

\* The callback of UI.startGame on the host: Game.resize, Game.start(true)
SyncHostStart(v) ==
    /\ syn.rafHost > 0
    /\ LET m == [Handler(syn.host) EXCEPT
                   !.g = Game_resize(@, [width |-> TableWidth, height |-> TableHeight])]
       IN  SyncApply(HostDid([syn EXCEPT !.rafHost = @ - 1],
                             Game_start(m, TRUE, v), TRUE))

\* connection.on('data') on the guest with the oldest message in flight:
\* Network.handleMessage
SyncDeliver ==
    /\ syn.toGuest # <<>>
    /\ LET data == Head(syn.toGuest)
           s1 == [syn EXCEPT !.toGuest = Tail(@)]
       IN  SyncApply(
             CASE data.type = "gameState" ->
                    [s1 EXCEPT !.guest = Match_updateFromHost(Handler(@), data.state)]
               [] data.type = "playAgain" ->
                    [s1 EXCEPT !.rafGuest = @ + 1]
               [] OTHER -> s1)

\* The callback of UI.startGame on the guest: Game.resize, Game.start(false)
SyncGuestStart ==
    /\ syn.rafGuest > 0
    /\ LET m == [Handler(syn.guest) EXCEPT
                   !.g = Game_resize(@, [width |-> TableWidth, height |-> TableHeight])]
       IN  SyncApply([syn EXCEPT !.rafGuest = @ - 1,
                                 !.guest = Game_start(m, FALSE, [vx |-> 0, vy |-> 0])])

NextSync ==
    \/ \E o \in SyncOutcomes, due \in BOOLEAN : SyncTick(o, due)
    \/ \E v \in ResetVelocities, due \in BOOLEAN : SyncResetFire(v, due)
    \/ SyncShowTimer
    \/ SyncPlayAgain
    \/ \E v \in StartVelocities : SyncHostStart(v)
    \/ SyncDeliver
    \/ SyncGuestStart

SpecSync == InitSync /\ [][NextSync]_vars

-----------------------------------------------------------------------------
(* Properties.                                                             *)

Guest == "P2"
Host == "P1"
Opposite(b) == IF b = Host THEN Guest ELSE Host

StartsQueued(q) == Len(SelectSeq(q, LAMBDA e : e.kind = "start"))

\* Some end of browser b is about to hand a message of type ty to its listeners.
Inbound(b, ty) ==
    \E k \in 1..Len(conns) : \E sd \in Sides :
        /\ EndLive(conns[k].end[sd])
        /\ conns[k].end[sd].q # <<>>
        /\ Head(conns[k].end[sd].q).type = ty
        /\ EndOwner(S, k, sd) = b

\* A message of type ty is in flight to browser b.
InFlightTo(b, ty) ==
    \E k \in 1..Len(conns) : \E sd \in Sides :
        /\ conns[k].end[sd].q # <<>>
        /\ Head(conns[k].end[sd].q).type = ty
        /\ (sd = "h" => conns[k].hpeer # NoPeer)
        /\ EndOwner(S, k, sd) = b

\* C1: only the host runs the physics tick and the guest never does; a host
\* never applies an inbound gameState; while a match runs on a browser its
\* Game.isHost equals its Network.isHost, and two browsers that both run a
\* match have opposite roles.
C1_HostAuthority ==
    /\ \A b \in Browsers : ~Did("guestPhysics", b) /\ ~Did("hostApplied", b)
    /\ \A b \in Browsers : game[b].isRunning => game[b].isHost = net[b].isHost
    /\ (game[Host].isRunning /\ game[Guest].isRunning)
          => game[Host].isHost # game[Guest].isHost

\* C2: a guest that applies a gameState (x, y, vx, vy, score {p, o}) holds
\* the puck at (width - x, height - y) with velocity (-vx, -vy) and the
\* score {player: o, opponent: p}.
C2_GuestMirrors ==
    (mir.n = 1 /\ mir.kind = "gameState") =>
        /\ mir.g.puck = [x |-> mir.g.width - mir.given.puck.x,
                         y |-> mir.g.height - mir.given.puck.y,
                         vx |-> 0 - mir.given.puck.vx,
                         vy |-> 0 - mir.given.puck.vy]
        /\ mir.g.score = [player |-> mir.given.score.opponent,
                          opponent |-> mir.given.score.player]

\* A guest has applied a message with a moving, off-centre puck and an
\* uneven score.
C2_Applied ==
    /\ mir.n = 1 /\ mir.kind = "gameState"
    /\ mir.given.puck.vx # 0 /\ mir.given.puck.vy # 0
    /\ mir.given.puck.x # mir.g.puck.x /\ mir.given.puck.y # mir.g.puck.y
    /\ mir.given.score.player # mir.given.score.opponent

\* C3: the mirror is an involution: a position, velocity and score pair
\* that goes through it twice, in the same arena, comes back as it was; so
\* does a paddle position.
C3_MirrorTwice ==
    /\ (mir.n = 2 /\ mir.kind = "gameState") => StateOf(mir.g) = mir.given
    /\ (mir.n = 2 /\ mir.kind = "paddle") =>
           /\ mir.g.opponentPaddle.x = mir.given.puck.x
           /\ mir.g.opponentPaddle.y = mir.given.puck.y

\* A message whose puck the mirror moves has gone through it twice.
C3_Twice ==
    /\ mir.n = 2 /\ mir.kind = "gameState"
    /\ mir.given.puck.x # mir.g.width - mir.given.puck.x
    /\ mir.given.puck.x # mir.given.puck.y
    /\ mir.g.width # mir.g.height
    /\ mir.given.puck.vx # 0
    /\ mir.given.score.player # mir.given.score.opponent

\* C4: the handshake.  A guest gives a connection one 'ready' and no more;
\* a host with no match yet sends 'start' and queues its first match only
\* in the step that hands it a 'ready'; a guest with no match yet queues
\* its first match only in the step that hands it a 'start'; a guest handed
\* a 'ready' does nothing.
C4_Handshake ==
    /\ [](\A k \in 1..Len(conns) : conns[k].readys <= 1)
    /\ [][\A b \in Browsers :
            (/\ ~game[b].puck /\ StartsQueued(raf[b]) = 0
             /\ \/ StartsQueued(raf'[b]) > StartsQueued(raf[b])
                \/ net[b].isHost /\ ~InFlightTo(Opposite(b), "start")
                                 /\ InFlightTo(Opposite(b), "start")')
            => IF net[b].isHost THEN Inbound(b, "ready") ELSE Inbound(b, "start")]_vars
    /\ [][\A b \in Browsers :
            (~net[b].isHost
             /\ \E k \in 1..Len(conns) : \E sd \in Sides :
                   /\ EndLive(conns[k].end[sd])
                   /\ conns[k].end[sd].q # <<>>
                   /\ Head(conns[k].end[sd].q).type = "ready"
                   /\ EndOwner(S, k, sd) = b
                   /\ Deliver(k, sd))
            => UNCHANGED <<net, game, ui, raf, timers>>]_vars

\* C5: a guest never runs Game.updateFromHost while its puck is still null.
C5_PuckBeforeState ==
    \A b \in Browsers : ~Did("TypeError:updateFromHost", b)

\* C6: two gameState messages given to the channel are at least
\* stateSendInterval apart; the message given to the channel carries the
\* state of that instant, never an earlier attempt's; an attempt made too
\* soon changes nothing; within the window at most
\* ceil(Window / stateSendInterval) messages are given to the channel.
C6_Throttle ==
    /\ [][(thr'.sent > thr.sent /\ thr.sent > 0)
            => thr'.now - thr.lastSent >= stateSendInterval]_vars
    /\ [][thr'.sent > thr.sent
            => thr'.sent = thr.sent + 1 /\ thr'.wire = thr.now]_vars
    /\ [][(thr'.now = thr.now /\ thr.now - thr.lastStateSend < stateSendInterval)
            => thr'.sent = thr.sent /\ thr'.wire = thr.wire
               /\ thr'.lastStateSend = thr.lastStateSend]_vars
    /\ [](thr.sent <= (Window + stateSendInterval - 1) \div stateSendInterval)

\* Attempts were made every 5 ms through the whole window, and some of
\* them were dropped.
C6_Every5ms ==
    /\ thr.every5 = PageLoad + Window
    /\ thr.sent = 6

\* C7: Network.send called while the channel is not open and connected
\* changes nothing at all and raises nothing; with nothing kept, nothing
\* can be transmitted later.
C7_SendClosedIsNoop ==
    \A b \in Browsers : ~Did("sendChanged", b)

\* Network.send was called while the channel was not open.
C7_SentWhileClosed ==
    \E b \in Browsers : Did("sendNoop", b)

Disconnected(s, b) ==
    /\ s.net[b].connection = NoConn
    /\ s.net[b].peer = NoPeer
    /\ ~s.net[b].isConnected
    /\ s.net[b].roomCode = NoCode

\* C8: from any session state, after Network.disconnect the channel is
\* closed, the endpoint destroyed, connection and peer are null,
\* isConnected is false and roomCode is null; a second call leaves that
\* state as it is.
C8_DisconnectIdempotent ==
    \A b \in Browsers :
        LET s1 == disconnect(S, b)
            c == net[b].connection
            p == net[b].peer
        IN  /\ Disconnected(s1, b)
            /\ c # NoConn => s1.conns[c.k].end[c.side].closed
            /\ p # NoPeer => s1.peers[p].st = "destroyed"
            /\ disconnect(s1, b) = s1

\* A browser whose channel was open has disconnected: its channel is closed
\* and its endpoint destroyed.
C8_Disconnected ==
    \E b \in Browsers :
        /\ Disconnected(S, b)
        /\ \E p \in 1..Len(peers) :
              /\ peers[p].owner = b /\ peers[p].st = "destroyed"
              /\ \E k \in 1..Len(conns) :
                    /\ p \in {conns[k].from, conns[k].hpeer}
                    /\ conns[k].hpeer # NoPeer
                    /\ \A sd \in Sides : conns[k].end[sd].closed

\* The endpoint whose listeners serve an end of a connection.
EndPeer(k, sd) == IF sd = "g" THEN conns[k].via ELSE conns[k].hpeer

\* An endpoint that is not the browser's current one: its session was
\* destroyed or a later create or join took its place.
Stale(p) == p # NoPeer /\ net[peers[p].owner].peer # p

\* C9: no event of a session that was destroyed or superseded alters the
\* Network singleton, the Game singleton or the pending match starts.
C9_StaleSessionSilent ==
    [][(\/ \E p \in 1..Len(peers) :
              Stale(p) /\ (HostPeerOpen(p) \/ GuestPeerOpen(p))
        \/ \E k \in 1..Len(conns) :
              \/ \E hp \in HostOpenWith(peers, conns[k].to) :
                    Stale(hp) /\ ConnArrive(k) /\ conns'[k].hpeer = hp
              \/ \E sd \in Sides :
                    /\ Stale(EndPeer(k, sd))
                    /\ ConnOpen(k, sd) \/ Deliver(k, sd) \/ CloseArrive(k, sd))
       => UNCHANGED <<net, game, raf>>]_vars

\* C10: a step that brings a browser to the main menu leaves it with no
\* peer and no connection.
C10_MenuMeansDestroyed ==
    [][\A b \in Browsers :
          (ui[b].screen # "menu" /\ ui'[b].screen = "menu")
          => net'[b].peer = NoPeer /\ net'[b].connection = NoConn]_vars

\* C11: Network.createGame resolves only in a step after which the host is
\* connected: a remote peer has connected and its channel has opened on
\* the host.
C11_ResolvesWhenConnected ==
    [][\A p \in 1..Len(peers) :
          (peers[p].kind = "host" /\ peers[p].promise = "pending"
           /\ peers'[p].promise = "resolved")
          => net'[peers[p].owner].isConnected]_vars

\* C12: when the 60 s timer of a createGame call fires and no remote peer
\* has connected, the call fails: its promise is rejected and the user is
\* no longer on the create screen.
C12_TimeoutReachesCaller ==
    [][\A p \in 1..Len(peers) :
          (CreateTimeout(p) /\ ~net[peers[p].owner].isConnected
           /\ net[peers[p].owner].peer = p)
          => /\ peers'[p].promise = "rejected"
             /\ ui'[peers[p].owner].screen # "create"]_vars

\* C13: once a joinGame call has failed, a channel of that call that opens
\* later neither connects the guest nor arms a 'ready'.
C13_FailedJoinStaysFailed ==
    [][\A k \in 1..Len(conns) :
          (peers[conns[k].via].promise = "rejected" /\ ConnOpen(k, "g"))
          => /\ ~net'[peers[conns[k].via].owner].isConnected
             /\ timers'[peers[conns[k].via].owner].ready
                    = timers[peers[conns[k].via].owner].ready]_vars

\* C14: a connection-establishment timer that fires changes neither the
\* Network singleton nor the Game singleton, stops no loop, touches no
\* connection and no Peer, and settles no promise but that of its own call.
C14_TimeoutLeavesSession ==
    [][\A p \in 1..Len(peers) :
          (CreateTimeout(p) \/ JoinTimeout(p))
          => /\ UNCHANGED <<net, game, raf, timers, conns>>
             /\ peers'[p].st = peers[p].st
             /\ \A q \in 1..Len(peers) : q # p => peers'[q] = peers[q]]_vars

\* An establishment timer has fired on a browser whose session is open and
\* whose match is running.
C14_FiredDuringMatch ==
    \E b \in Browsers :
        /\ Did("timeout", b)
        /\ net[b].isConnected /\ game[b].isRunning
        /\ ChannelOpen(S, b)

\* C15: no match is running on a browser whose channel has closed: the
\* close stops the loop and no later frame starts it.
C15_ClosedMeansStopped ==
    \A b \in Browsers :
        game[b].isRunning =>
            ~(/\ net[b].connection # NoConn
              /\ conns[net[b].connection.k].end[net[b].connection.side].closed)

\* The world after the step.
After == [net |-> net', game |-> game', ui |-> ui', raf |-> raf',
          timers |-> timers', peers |-> peers', conns |-> conns', did |-> {}]

\* C16: when the channel of a browser's current session closes, or the
\* connection attempt of its current session fails for good, the browser
\* is not connected afterwards, a send changes nothing, and
\* Network.onDisconnected has been called.
C16_CloseDisconnects ==
    [][\A b \in Browsers : \A k \in 1..Len(conns) : \A sd \in Sides :
          (/\ net[b].connection = [k |-> k, side |-> sd]
           /\ \/ CloseArrive(k, sd)
              \/ sd = "g" /\ ConnUnavailable(k))
          => /\ ~net'[b].isConnected
             /\ send(After, b, Msg("paddle")) = After
             /\ [ev |-> "onDisconnected", b |-> b] \in did']_vars

\* C17: on the host, a step that does not start a match lowers neither
\* component of the score; both components are at most winningScore in
\* every state, and below it whenever isRunning is true.
C17_ScoreBounded ==
    /\ [](/\ mat.g.score.player <= winningScore
          /\ mat.g.score.opponent <= winningScore
          /\ mat.g.isRunning => /\ mat.g.score.player < winningScore
                                /\ mat.g.score.opponent < winningScore)
    /\ [][mat'.starts = mat.starts =>
            /\ mat'.g.score.player >= mat.g.score.player
            /\ mat'.g.score.opponent >= mat.g.score.opponent]_vars

\* A goal of the latest frame took a component from 10 to winningScore
C17_GoalReachedEleven ==
    /\ mat.g.isHost
    /\ mat.goals # <<>>
    /\ \/ mat.g.score.player = winningScore
       \/ mat.g.score.opponent = winningScore

\* The match the host is in has ended by Game.gameOver
MatchOver(m) == \E i \in 1..Len(m.overs) : m.overs[i].match = m.starts

\* C18: on the host, the step whose goal takes the scorer's score to
\* winningScore calls Game.gameOver exactly once, with the scorer as the
\* winner, leaves isRunning false and hands nothing to Network.sendGameState;
\* from then until the next Game.start no frame moves the puck or changes
\* the score and no state is handed to Network.sendGameState; and
\* Game.gameOver is never called in a step that leaves both scores below
\* winningScore.
C18_WinningGoalEndsMatch ==
    [][/\ \A c \in {"player", "opponent"} :
            (/\ mat'.starts = mat.starts
             /\ mat.g.score[c] < winningScore
             /\ mat'.g.score[c] = winningScore)
            => /\ mat'.overs = Append(mat.overs, [playerWon |-> c = "player",
                                                  match |-> mat.starts])
               /\ ~mat'.g.isRunning
               /\ mat'.sentNow = 0
       /\ (MatchOver(mat) /\ mat'.starts = mat.starts)
            => /\ ~mat'.g.isRunning
               /\ mat'.g.puck = mat.g.puck
               /\ mat'.g.score = mat.g.score
               /\ mat'.sent = mat.sent
               /\ mat'.overs = mat.overs
               /\ mat'.loops <= mat.loops
       /\ mat'.overs # mat.overs
            => \/ mat'.g.score.player = winningScore
               \/ mat'.g.score.opponent = winningScore]_vars

\* The opponent's goal ended the first match, the frame after it found
\* isRunning false and asked for no further frame, and a timer of an earlier
\* goal of that match has run since
C18_LoopHalted ==
    /\ mat.overs = <<[playerWon |-> FALSE, match |-> 1]>>
    /\ mat.starts = 1
    /\ mat.g.score.opponent = winningScore
    /\ mat.loops = 0
    /\ mat.fired > 0

\* The host's Game after the position, friction, speed and side-wall steps
\* of a frame of dt
AfterSideWalls(dt) == Game_sideWalls([Handler(mat) EXCEPT !.g = Game_move(mat.g, dt)])

\* C19: in a frame of the host where the puck, after the side-wall step, is
\* beyond the top or the bottom boundary, a goal is scored iff
\* goalLeft < x < goalRight: the top credits 'player', the bottom credits
\* 'opponent', each with one point; otherwise (x at an edge of the goal
\* mouth or outside it) the wall step puts y on the boundary, reverses vy
\* scaled by 0.9, and the frame changes no score.
C19_GoalIffStrictlyInside ==
    [][\A dt \in FrameDts : Frame1(dt) /\ mat.g.isRunning =>
         LET a == AfterSideWalls(dt)
             w == Game_endWalls(a)
             g == mat.g
             top == a.g.puck.y < g.wallThickness + g.puckRadius
             bottom == a.g.puck.y > g.height - g.wallThickness - g.puckRadius
             inside == /\ 2 * a.g.puck.x > g.width - g.goalWidth
                       /\ 2 * a.g.puck.x < g.width + g.goalWidth
         IN  /\ (top /\ inside) =>
                  /\ mat'.g.score = [g.score EXCEPT !.player = @ + 1]
                  /\ mat'.goals = <<"player">>
             /\ (bottom /\ inside) =>
                  /\ mat'.g.score = [g.score EXCEPT !.opponent = @ + 1]
                  /\ mat'.goals = <<"opponent">>
             /\ (top /\ ~inside) =>
                  /\ w.g.puck.y = g.wallThickness + g.puckRadius
                  /\ w.g.puck.vy = Scale(-a.g.puck.vy, 9, 10)
                  /\ w.g.puck.x = a.g.puck.x /\ w.g.puck.vx = a.g.puck.vx
                  /\ mat'.g.score = g.score /\ mat'.goals = <<>>
             /\ (bottom /\ ~inside) =>
                  /\ w.g.puck.y = g.height - g.wallThickness - g.puckRadius
                  /\ w.g.puck.vy = Scale(-a.g.puck.vy, 9, 10)
                  /\ w.g.puck.x = a.g.puck.x /\ w.g.puck.vx = a.g.puck.vx
                  /\ mat'.g.score = g.score /\ mat'.goals = <<>>
             /\ ~(top \/ bottom) => mat'.g.score = g.score /\ mat'.goals = <<>>]_vars

\* The latest frame bounced the puck off the top wall exactly at the left
\* edge of the goal mouth, and the score is as it was
C19_BounceAtGoalEdge ==
    /\ mat.ticks = 1
    /\ mat.g.puck.x = goalLeft(mat.g)
    /\ mat.g.puck.y = wallTop(mat.g)
    /\ mat.g.puck.vy > 0
    /\ mat.sounds = <<"wall">>
    /\ mat.goals = <<>>

\* A 1500 ms timer set by a goal of the match the host is in has not run yet
ResetPending(m) == \E i \in 1..Len(m.resets) : m.resets[i].match = m.starts

\* C20: on the host, from a goal that does not end the match until its
\* 1500 ms timer has run, no step of that match counts a goal or sets
\* another timer: the score and the number of pending timers do not grow.
C20_OneGoalPerEntry ==
    [][(ResetPending(mat) /\ mat'.starts = mat.starts)
         => /\ mat'.g.score = mat.g.score
            /\ Len(mat'.resets) <= Len(mat.resets)]_vars

\* Browser b is about to be handed a message of type ty by the connection
\* it is connected through, and this step hands it over.
Handed(b, ty) ==
    /\ net[b].connection # NoConn
    /\ net[b].isConnected
    /\ LET c == net[b].connection
       IN  /\ EndLive(conns[c.k].end[c.side])
           /\ conns[c.k].end[c.side].q # <<>>
           /\ Head(conns[c.k].end[c.side].q).type = ty
           /\ Deliver(c.k, c.side)

\* C21: a connected browser that holds the host's end of its connection,
\* handed 'playAgain', sends 'start' and queues a match start as host; a
\* connected browser that holds the guest's end, handed 'playAgain' or,
\* with a match already started, 'start', queues a match start as guest.
C21_Rematch ==
    [][\A b \in Browsers :
         /\ (Handed(b, "playAgain") /\ net[b].connection.side = "h")
              => /\ raf'[b] # <<>>
                 /\ raf'[b][Len(raf'[b])] = StartCb(TRUE)
                 /\ InFlightTo(Opposite(b), "start")'
         /\ (/\ net[b].connection # NoConn
             /\ net[b].connection.side = "g"
             /\ \/ Handed(b, "playAgain")
                \/ Handed(b, "start") /\ game[b].puck)
              => /\ raf'[b] # <<>>
                 /\ raf'[b][Len(raf'[b])] = StartCb(FALSE)]_vars

\* The centre of the arena
Centre(g) == [x |-> g.width \div 2, y |-> g.height \div 2]

\* Score, puck and paddles of g are those a match begins with, and the trail
\* is the given one
StartedWith(g, trail) ==
    /\ g.score = [player |-> 0, opponent |-> 0]
    /\ g.puck.x = Centre(g).x
    /\ g.puck.y = Centre(g).y
    /\ g.puckTrail = trail
    /\ g.playerPaddle = [x |-> g.width \div 2,
                         y |-> g.height - g.paddleRadius - g.wallThickness - 20 * Px,
                         vx |-> 0, vy |-> 0]
    /\ g.opponentPaddle = [x |-> g.width \div 2,
                           y |-> g.paddleRadius + g.wallThickness + 20 * Px,
                           vx |-> 0, vy |-> 0, lastX |-> 0, lastY |-> 0]
    /\ g.isHost => [vx |-> g.puck.vx, vy |-> g.puck.vy] \in StartVelocities
    /\ ~g.isHost => g.puck.vx = 0 /\ g.puck.vy = 0

\* This step is the callback of UI.startGame
Starting ==
    \E rect \in Tables, isHost \in BOOLEAN, v \in StartVelocities :
        PlayStart(rect, isHost, v)

Pointing == \E p \in Pointers : PointerMove(p.x, p.y)

\* C24: after any local pointer input during a running match, for every raw
\* pointer position and every arena geometry, the local paddle lies in the
\* client's own (bottom) half and inside the playable bounds,
\* paddleRadius + wallThickness <= x <= width - paddleRadius - wallThickness
\* and height/2 + paddleRadius + 10 <= y <= height - paddleRadius -
\* wallThickness, and the paddle message sent carries exactly that position.
C24_PaddleInOwnHalf ==
    [][(Pointing /\ mat.g.isRunning) =>
         LET g == mat'.g
             pp == g.playerPaddle
         IN  /\ g.paddleRadius + g.wallThickness <= pp.x
             /\ pp.x <= g.width - g.paddleRadius - g.wallThickness
             /\ g.height \div 2 + g.paddleRadius + 10 * Px <= pp.y
             /\ pp.y <= g.height - g.paddleRadius - g.wallThickness
             /\ mat'.paddleSentNow = 1
             /\ mat'.paddleWire = [x |-> pp.x, y |-> pp.y]]_vars

\* C23: in every frame of the host that scores no goal, right after the
\* side-wall and end-wall steps the puck has
\* wallThickness + radius <= x <= width - wallThickness - radius and
\* wallThickness + radius <= y <= height - wallThickness - radius, for every
\* position and velocity before the frame and every dt in [0, 2]; the
\* paddle step that ends the frame starts from that position.
C23_PuckInsideWalls ==
    [][\A dt \in FrameDts : Frame1(dt) /\ mat.g.isRunning =>
         LET w == Game_endWalls(AfterSideWalls(dt))
         IN  w.goals = <<>> =>
               /\ wallLeft(w.g) <= w.g.puck.x
               /\ w.g.puck.x <= wallRight(w.g)
               /\ wallTop(w.g) <= w.g.puck.y
               /\ w.g.puck.y <= wallBottom(w.g)
               /\ mat'.g = Game_paddles(w).g
               /\ mat'.goals = <<>>]_vars

\* The latest frame took the puck beyond the left wall and the top wall
\* outside the goal mouth, and both steps put it back on the boundary
C23_CornerBounce ==
    /\ mat.ticks = 1
    /\ mat.sounds = <<"wall", "wall">>
    /\ mat.goals = <<>>
    /\ mat.g.puck.x = wallLeft(mat.g)
    /\ mat.g.puck.y = wallTop(mat.g)

\* The match of host h has ended by a winning goal while its channel to
\* guest g is open on both ends, g is in that match as the guest, and
\* nothing is left to come to g: no message in flight to it and no
\* game-over timer pending on it
FinalScoreSettled(h, g) ==
    /\ h # g
    /\ game[h].isHost /\ ~game[h].isRunning /\ game[h].won # "none"
    /\ ~game[g].isHost /\ game[g].puck
    /\ net[h].connection # NoConn /\ net[h].isConnected
    /\ net[g].connection # NoConn /\ net[g].isConnected
    /\ net[h].connection.k = net[g].connection.k
    /\ net[h].connection.side = "h" /\ net[g].connection.side = "g"
    /\ \A sd \in Sides : EndLive(conns[net[h].connection.k].end[sd])
    /\ conns[net[g].connection.k].end["g"].q = <<>>
    /\ timers[g].show = 0

\* C25: whenever the host's match ends by a winning goal while the channel
\* is open, the guest receives the final score and reaches match-over with
\* the mirrored score and the opposite outcome, and match-over is never
\* skipped on the guest: once nothing more is on its way to the guest, the
\* guest holds the mirrored final score, its match has stopped and it shows
\* the game-over screen.
C25_GuestReachesMatchOver ==
    \A h \in Browsers, g \in Browsers :
        FinalScoreSettled(h, g) =>
            /\ game[g].won = MirrorWon(game[h].won)
            /\ ~game[g].isRunning
            /\ ui[g].screen = "gameover"

\* Browser b holds a connection whose end is open and whose events it handles
Serving(b) ==
    /\ net[b].connection # NoConn
    /\ net[b].isConnected
    /\ EndLive(conns[net[b].connection.k].end[net[b].connection.side])
    /\ conns[net[b].connection.k].end[net[b].connection.side].handlers > 0

\* The host-side ends of browser b that are open with listeners registered
HandledEnds(b) ==
    {k \in 1..Len(conns) :
        /\ conns[k].hpeer # NoPeer
        /\ peers[conns[k].hpeer].owner = b
        /\ EndLive(conns[k].end["h"])
        /\ conns[k].end["h"].handlers > 0}

\* C26: a host session has at most one live data channel whose events are
\* handled: while a guest is connected, a further peer that connects to the
\* same room code does not replace the stored connection, and no second
\* channel has its messages dispatched to handleMessage.
C26_OneChannelPerHost ==
    /\ [][\A b \in Browsers :
            (Serving(b) /\ net[b].connection.side = "h")
                => (net'[b].connection # NoConn
                      => net'[b].connection = net[b].connection)]_vars
    /\ [](\A b \in Browsers : Cardinality(HandledEnds(b)) <= 1)

\* The pending animation frames of browser b that call Game.gameLoop
LoopsPending(b) == Len(SelectSeq(raf[b], LAMBDA e : e.kind = "loop"))

\* C27: at most one simulation loop (one pending requestAnimationFrame chain
\* that calls Game.gameLoop) is active on a browser at any time, also when
\* Game.start runs while a match is already running.
C27_OneLoop ==
    \A b \in Browsers : LoopsPending(b) <= 1

\* This step is the callback of a 1500 ms timer set by a goal
ResetFiring == \E v \in ResetVelocities : ResetFire(v)

\* C28: a puck reset scheduled by a goal in one match never executes in a
\* later match: when the timer of a goal of an earlier match runs, it does
\* not recentre the puck, change its velocity, clear the trail or send a
\* state; when the match of the goal is still running, the reset executes,
\* once.
C28_ResetStaysInItsMatch ==
    [][ResetFiring =>
         IF Head(mat.resets).match < mat.starts
         THEN /\ mat'.g = mat.g
              /\ mat'.sentNow = 0
         ELSE mat.g.isRunning =>
                /\ mat'.g.puck.x = mat.g.width \div 2
                /\ mat'.g.puck.y = mat.g.height \div 2
                /\ mat'.g.puckTrail = <<>>
                /\ mat'.sentNow = 1]_vars

\* C29: after a puck reset the puck is at the centre of the arena, the
\* host's trail is empty, and the vertical velocity points toward the side
\* that was just scored upon: vy > 0 (toward the bottom, the local player's
\* goal) when 'opponent' scored, vy < 0 (toward the top) when 'player'
\* scored, for every angle of the range, with speed 8 (to the thousandth of
\* a pixel per frame).
C29_ResetTowardScoredSide ==
    [][(ResetFiring /\ mat.g.isRunning) =>
         LET pk == mat'.g.puck
             sq == pk.vx * pk.vx + pk.vy * pk.vy
         IN  /\ pk.x = mat.g.width \div 2
             /\ pk.y = mat.g.height \div 2
             /\ mat'.g.puckTrail = <<>>
             /\ Head(mat.resets).scorer = "opponent" => pk.vy > 0
             /\ Head(mat.resets).scorer = "player" => pk.vy < 0
             /\ (8 * Px - 1) * (8 * Px - 1) <= sq
             /\ sq <= (8 * Px + 1) * (8 * Px + 1)]_vars

\* A reset after a goal of 'player' has just sent the puck from the centre
\* toward the top
C29_ResetTowardTop ==
    /\ mat.fired > 0
    /\ mat.g.isRunning
    /\ mat.g.score.player > 0
    /\ mat.g.puckTrail = <<>>
    /\ mat.g.puck.x = mat.g.width \div 2
    /\ mat.g.puck.y = mat.g.height \div 2
    /\ mat.g.puck.vy < 0
    /\ mat.sentNow = 1

\* This step is a frame of the display
Ticking == \E dt \in FrameDts : PlayTick(dt)

\* The speed of a puck is at most maxSpeed, to the thousandth of a pixel
AtMostMaxSpeed(pk) ==
    /\ Abs(pk.vx) <= maxPuckSpeed + 1
    /\ Abs(pk.vy) <= maxPuckSpeed + 1
    /\ pk.vx * pk.vx + pk.vy * pk.vy <= (maxPuckSpeed + 1) * (maxPuckSpeed + 1)

\* C30: at the end of every physics tick of the host, and so in every
\* gameState it sends, the speed of the puck is at most maxSpeed (25), also
\* in a tick where a paddle collision applies an impulse.
C30_SpeedCapped ==
    [][(Ticking /\ mat.g.isRunning /\ mat.g.isHost) =>
         /\ AtMostMaxSpeed(mat'.g.puck)
         /\ mat'.sentNow > 0 => AtMostMaxSpeed(mat'.wire.puck)]_vars

\* The puck is inside the playable rectangle of the arena
InPlayable(g, pk) ==
    /\ wallLeft(g) <= pk.x /\ pk.x <= wallRight(g)
    /\ wallTop(g) <= pk.y /\ pk.y <= wallBottom(g)

\* C31: every gameState the host's physics tick sends carries a puck
\* position inside the playable rectangle
\* [wallThickness + radius, width - wallThickness - radius] x
\* [wallThickness + radius, height - wallThickness - radius], also in a tick
\* where the positional correction of a paddle moves the puck after the
\* walls have been resolved.
C31_SentPuckInsideWalls ==
    [][(Ticking /\ mat.g.isRunning /\ mat.g.isHost /\ mat'.sentNow > 0) =>
         /\ mat'.wire.puck.x = mat'.g.puck.x
         /\ mat'.wire.puck.y = mat'.g.puck.y
         /\ InPlayable(mat'.g, mat'.wire.puck)]_vars

\* This step hands the oldest message in flight, a gameState, to the guest,
\* which has a match to apply it to
ApplyingState ==
    /\ SyncDeliver
    /\ Head(syn.toGuest).type = "gameState"
    /\ syn.guest.g.hasPuck /\ ~syn.guest.g.isHost

\* C32: with in-order delivery, between two consecutive match starts on the
\* guest no component of the guest's score decreases, and a gameState the
\* guest applies comes from the host's match that corresponds to the
\* guest's current one, whose score it then holds with player and opponent
\* swapped: a gameState of the host's match before is never applied to the
\* guest's new match.
C32_GuestScoreFollowsHost ==
    /\ [][syn'.guest.starts = syn.guest.starts =>
            /\ syn'.guest.g.score.player >= syn.guest.g.score.player
            /\ syn'.guest.g.score.opponent >= syn.guest.g.score.opponent]_vars
    /\ [][ApplyingState =>
            /\ Head(syn.toGuest).match = syn.guest.starts
            /\ syn'.guest.g.score = Swap(Head(syn.toGuest).state.score)]_vars

\* The puck of the host after the position, friction and speed steps of a
\* frame of dt is beyond the left or the right wall
BeyondSideWall(dt) ==
    LET mv == Game_move(mat.g, dt)
    IN  mv.puck.x < wallLeft(mat.g) \/ mv.puck.x > wallRight(mat.g)

RECURSIVE RootCall(_)
RootCall(p) == IF peers[p].outer = NoPeer THEN p ELSE RootCall(peers[p].outer)

\* This step is the error unavailable-id on peer p
Colliding(p) == \E r1 \in Randoms, r2 \in Randoms : IdTaken(p, r1, r2)

\* C34: for any number of identity collisions during a createGame call,
\* each collision destroys the failed Peer, generates a new 4-digit code in
\* 1000..9999 and retries, and the collision is never given to the caller
\* as an error; whenever the host's Peer is open its identity is
\* 'airhockey-' followed by Network.roomCode, which is also the code the
\* call, when still awaited, resolves with.
C34_CollisionRetries ==
    /\ [][\A p \in 1..Len(peers) :
            (Colliding(p) /\ peers[RootCall(p)].promise = "pending") =>
               LET b == peers[p].owner
                   n == Len(peers')
               IN  /\ peers'[p].st = "destroyed"
                   /\ n = Len(peers) + 1
                   /\ peers'[n].kind = "host" /\ peers'[n].st = "new"
                   /\ peers'[n].owner = b /\ peers'[n].outer = p
                   /\ peers'[n].code \in 1000..9999
                   /\ net'[b].peer = n
                   /\ net'[b].roomCode = peers'[n].code
                   /\ peers'[RootCall(p)].promise = "pending"
                   /\ ui'[b].screen = ui[b].screen
                   /\ ~Did("createFailed", b)']_vars
    /\ [][\A q \in 1..Len(peers) :
            (CreateOpen(q) /\ peers[RootCall(q)].promise = "pending") =>
            /\ net[peers[q].owner].roomCode = peers[q].code
            /\ peers'[RootCall(q)].promise = "resolved"
            /\ \A p \in 1..Len(peers) :
                  (peers[p].promise = "pending" /\ peers'[p].promise = "resolved")
                     => peers'[p].value = peers[q].code]_vars
    /\ [](\A b \in Browsers :
            (/\ net[b].peer # NoPeer
             /\ peers[net[b].peer].kind = "host"
             /\ peers[net[b].peer].st = "open")
               => peers[net[b].peer].code = net[b].roomCode)

=============================================================================
